---- MODULE Spec2Model ----
(***************************************************************************)
(* LDC array lowering (gen/arrays.cpp).                                    *)
(*                                                                         *)
(* The lowering functions append instructions to the function under       *)
(* construction (gIR: labelled blocks, the current insertion block).  The  *)
(* emitted code is then run by a small interpreter over a word-addressed   *)
(* memory, so that statements about the generated code's behaviour are     *)
(* checked on what it does, not on how it reads.                           *)
(***************************************************************************)
EXTENDS Integers, Sequences, FiniteSets, TLC

\* ------------------------------------------------------------------ bounds
MaxLen == 3            \* largest array length drawn
WordBits == 8          \* width of size_t in the model
MaxLit == 5            \* most elements of an array literal
MaxCat == 4            \* most operands of a concatenation

WordMod == 2 ^ WordBits

\* ------------------------------------------------------------ memory layout
\* Word-addressed memory.  A dynamic array reference occupies two words.
RefWords == 2          \* DtoArrayType: {size_t length, T* ptr}
ARef == 0 * RefWords   \* array variable a: {a.length, a.ptr}
BRef == 1 * RefWords   \* array variable b: {b.length, b.ptr}
DataBase == 2 * RefWords  \* first word of a's element storage
DataLen == 2 * MaxLen + MaxLit   \* words of element storage
ScratchBase == DataBase + DataLen   \* stack slots (allocas) of the function
ScratchLen == MaxCat * (2 * RefWords + 1) + RefWords + 1   \* stack words
MemTop == ScratchBase + ScratchLen
ScalarAddr == MemTop - 1   \* a scalar variable of the function

VARIABLES
  gIR,      \* function under construction: [blocks, scopebb, nreg]
  calls,    \* the lowering calls made so far, with their arguments
  phase,    \* "emit": lowering; "run": emitted code runs; "done"; "trap"
  xbb,      \* interpreter: current block
  xip,      \* interpreter: next instruction within xbb
  regs,     \* interpreter: SSA registers
  trace,    \* interpreter: blocks entered, in order
  rtcalls,  \* interpreter: runtime entries called, in order
  reads,    \* interpreter: addresses the emitted code has read
  writes,   \* interpreter: addresses the emitted code has written
  mem       \* memory the emitted code runs on

vars == <<gIR, calls, phase, xbb, xip, regs, trace, rtcalls, reads, writes,
          mem>>
xvars == <<xbb, xip, regs, trace, rtcalls, reads, writes>>

\* ------------------------------------------------------------- IR building
\* An operand is a constant (or a value bound by the caller) or a register.
Const(n) == [k |-> "c", v |-> n]
Reg(r) == [k |-> "r", v |-> r]

\* DtoConstSize_t: a constant of machine-word width.
DtoConstSize_t(n) == Const(n % WordMod)

\* Append an instruction to the current insertion block (gIR->ir->Create...).
Emit(ir, ins) == [ir EXCEPT !.blocks[ir.scopebb].instrs = Append(@, ins)]

\* gIR->insertBB / insertBBAfter: a new, empty block; its id is Len(blocks).
insertBB(ir, label) ==
  [ir EXCEPT !.blocks = Append(@, [label |-> label, instrs |-> <<>>])]

\* gIR->scope() = IRScope(bb)
SetScope(ir, bb) == [ir EXCEPT !.scopebb = bb]

NewReg(ir) == [ir EXCEPT !.nreg = @ + 1]

\* DtoAlloca / DtoRawAlloca: a fresh stack slot; its address is
\* ScratchBase + the number of slots taken before.
NewAlloca(ir) == [ir EXCEPT !.nalloca = @ + 1]
AllocaAddr(ir) == ScratchBase + ir.nalloca
NewAllocaN(ir, n) == [ir EXCEPT !.nalloca = @ + n]

\* ------------------------------------------------------------------ DValues
\* An array-typed DValue.  len/ptr are the run-time length and pointer of an
\* rvalue (a static array's dimension is its len); an lvalue dynamic array
\* lives at addr and its fields are loaded when needed.
SArray(n, p, esz) ==
  [ty |-> "Tsarray", isNull |-> FALSE, isLVal |-> TRUE, isSlice |-> FALSE,
   len |-> n, ptr |-> p, addr |-> p, esz |-> esz]
DynLVal(a, esz) ==
  [ty |-> "Tarray", isNull |-> FALSE, isLVal |-> TRUE, isSlice |-> FALSE,
   len |-> 0, ptr |-> 0, addr |-> a, esz |-> esz]
DynSlice(n, p, esz) ==
  [ty |-> "Tarray", isNull |-> FALSE, isLVal |-> FALSE, isSlice |-> TRUE,
   len |-> n, ptr |-> p, addr |-> 0, esz |-> esz]
DynNull(esz) ==
  [ty |-> "Tarray", isNull |-> TRUE, isLVal |-> FALSE, isSlice |-> FALSE,
   len |-> 0, ptr |-> 0, addr |-> 0, esz |-> esz]
Pointer(p, esz) ==
  [ty |-> "Tpointer", isNull |-> FALSE, isLVal |-> FALSE, isSlice |-> FALSE,
   len |-> 0, ptr |-> p, addr |-> 0, esz |-> esz]

\* The DValue of an index expression; present = FALSE is the null pointer
\* a caller passes when the index is known to be in bounds.
NoIndex == [present |-> FALSE, val |-> 0]
Index(i) == [present |-> TRUE, val |-> i]

\* DtoArrayLen: the length as an operand, and the code emitted to get it.
DtoArrayLen(ir, v) ==
  IF v.ty = "Tarray"
  THEN IF v.isNull
       THEN [ir |-> ir, val |-> DtoConstSize_t(0)]
       ELSE IF v.isLVal
       THEN LET r == ir.nreg + 1
            IN [ir |-> Emit(NewReg(ir),
                            [op |-> "load", addr |-> Const(v.addr),
                             dst |-> r, name |-> ".len"]),
                val |-> Reg(r)]
       ELSE [ir |-> ir, val |-> Const(v.len)]   \* extractvalue 0
  ELSE \* Tsarray: the static dimension
       [ir |-> ir, val |-> DtoConstSize_t(v.len)]

\* DtoArrayPtr: the pointer as an operand, and the code emitted to get it.
DtoArrayPtr(ir, v) ==
  IF v.ty = "Tarray"
  THEN IF v.isNull
       THEN [ir |-> ir, val |-> Const(0)]
       ELSE IF v.isLVal
       THEN LET r == ir.nreg + 1
            IN [ir |-> Emit(NewReg(ir),
                            [op |-> "load", addr |-> Const(v.addr + 1),
                             dst |-> r, name |-> ".ptr"]),
                val |-> Reg(r)]
       ELSE [ir |-> ir, val |-> Const(v.ptr)]   \* extractvalue 1
  ELSE \* Tsarray: the block's address
       [ir |-> ir, val |-> Const(v.addr)]

\* ------------------------------------------------------------ bounds check
\* llvm::ICmpInst predicates on machine words.
Signed(a) == IF a >= WordMod \div 2 THEN a - WordMod ELSE a
ICmp(pred, a, b) ==
  CASE pred = "ult" -> a < b
    [] pred = "ule" -> a <= b
    [] pred = "slt" -> Signed(a) < Signed(b)
    [] pred = "eq" -> a = b
    [] pred = "ne" -> a # b
    [] pred = "ne"  -> a # b
    [] pred = "eq"  -> a = b

\* The predicate DtoIndexBoundsCheck compares index against length with.
BoundsCmpWrong == "ule"
BoundsCmpSigned == "slt"
BoundsCmp == "ult"

\* DtoBoundsCheckFailCall: call _d_arraybounds, then unreachable.
\* The trap block left without its unreachable.
DtoBoundsCheckFailCallReturns(ir) ==
  Emit(ir, [op |-> "call", fn |-> "_d_arraybounds"])

DtoBoundsCheckFailCall(ir) ==
  Emit(Emit(ir, [op |-> "call", fn |-> "_d_arraybounds"]),
       [op |-> "unreachable"])

\* The two early returns: no index supplied, or a pointer is indexed.
SkipsBoundsCheckNoIndexOnly(arr, index) == ~index.present

SkipsBoundsCheck(arr, index) == ~index.present \/ arr.ty = "Tpointer"

\* DtoIndexBoundsCheck.
DtoIndexBoundsCheck(ir, arr, index) ==
  IF SkipsBoundsCheck(arr, index) THEN ir
  ELSE LET l == DtoArrayLen(ir, arr)
           cond == l.ir.nreg + 1
           ir1 == Emit(NewReg(l.ir),
                       [op |-> "icmp", pred |-> BoundsCmp,
                        a |-> DtoConstSize_t(index.val), b |-> l.val,
                        dst |-> cond])
           okbb == Len(ir1.blocks) + 1
           failbb == Len(ir1.blocks) + 2
           ir2 == insertBB(insertBB(ir1, "bounds.ok"), "bounds.fail")
           ir3 == Emit(ir2, [op |-> "condbr", cond |-> Reg(cond),
                             t |-> okbb, f |-> failbb])
           ir4 == DtoBoundsCheckFailCall(SetScope(ir3, failbb))
       IN SetScope(ir4, okbb)

\* ------------------------------------------------------- array assignment
\* Element types: whether elemType->needsDestruction() holds and whether the
\* (flattened) element type is a struct with a postblit.
ElemType(ty, dtor, postblit) ==
  [ty |-> ty, needsDestruction |-> dtor, postblit |-> postblit]

\* A scalar right-hand side: a constant, another rvalue, or an lvalue at
\* addr.  size is its byte size.
ScalarConst(v, size) ==
  [ty |-> "scalar", isNull |-> FALSE, isLVal |-> FALSE, isSlice |-> FALSE,
   isConst |-> TRUE, val |-> v, esz |-> size, addr |-> 0]
ScalarRVal(v, size) ==
  [ty |-> "scalar", isNull |-> FALSE, isLVal |-> FALSE, isSlice |-> FALSE,
   isConst |-> FALSE, val |-> v, esz |-> size, addr |-> 0]
ScalarLVal(a, size) ==
  [ty |-> "scalar", isNull |-> FALSE, isLVal |-> TRUE, isSlice |-> FALSE,
   isConst |-> FALSE, val |-> 0, esz |-> size, addr |-> a]

\* gIR->ir->CreateMul / CreateExactUDiv / CreateAdd on machine words.
CreateBin(ir, op, a, b) ==
  LET r == ir.nreg + 1
  IN [ir |-> Emit(NewReg(ir), [op |-> op, a |-> a, b |-> b, dst |-> r]),
      val |-> Reg(r)]

\* The test of the fill loop: CreateICmpNE(itr, length).
ArrayInitConditionEq == "eq"

ArrayInitCondition == "ne"

\* DtoArrayInit: write dvalue into length slots starting at ptr.  unit is
\* the byte size of one slot.
DtoArrayInit(ir, ptr, length, dvalue, unit) ==
  IF ~dvalue.isLVal /\ dvalue.isConst /\ (dvalue.val = 0 \/ dvalue.esz = 1)
  THEN \* zero or i8 constant: memset
       LET sz == IF dvalue.esz # 1
                 THEN CreateBin(ir, "mul", length, DtoConstSize_t(dvalue.esz))
                 ELSE [ir |-> ir, val |-> length]
       IN Emit(sz.ir, [op |-> "memset", dst |-> ptr,
                       val |-> Const(dvalue.val), size |-> sz.val,
                       unit |-> unit])
  ELSE LET condbb == Len(ir.blocks) + 1
           bodybb == Len(ir.blocks) + 2
           endbb == Len(ir.blocks) + 3
           ir1 == insertBB(insertBB(insertBB(ir, "arrayinit.cond"),
                                    "arrayinit.body"), "arrayinit.end")
           \* initialize iterator
           itr == AllocaAddr(ir1)
           ir2 == Emit(NewAlloca(ir1),
                       [op |-> "store", addr |-> Const(itr),
                        val |-> DtoConstSize_t(0)])
           \* move into the for condition block
           ir3 == SetScope(Emit(ir2, [op |-> "br", t |-> condbb]), condbb)
           \* the condition
           r1 == ir3.nreg + 1
           r2 == ir3.nreg + 2
           ir4 == Emit(NewReg(ir3), [op |-> "load", addr |-> Const(itr),
                                     dst |-> r1, name |-> "itr"])
           ir5 == Emit(NewReg(ir4), [op |-> "icmp", pred |-> ArrayInitCondition,
                                     a |-> Reg(r1), b |-> length,
                                     dst |-> r2])
           ir6 == SetScope(Emit(ir5, [op |-> "condbr", cond |-> Reg(r2),
                                      t |-> bodybb, f |-> endbb]), bodybb)
           \* the body: element address, blit of the value, increment
           r3 == ir6.nreg + 1
           ir7 == Emit(NewReg(ir6), [op |-> "load", addr |-> Const(itr),
                                     dst |-> r3, name |-> "itr"])
           gep == CreateBin(ir7, "add", ptr, Reg(r3))
           src == IF dvalue.isLVal
                  THEN LET r == gep.ir.nreg + 1
                       IN [ir |-> Emit(NewReg(gep.ir),
                                       [op |-> "load",
                                        addr |-> Const(dvalue.addr),
                                        dst |-> r, name |-> "rhs"]),
                           val |-> Reg(r)]
                  ELSE [ir |-> gep.ir, val |-> Const(dvalue.val)]
           ir8 == Emit(src.ir, [op |-> "store", addr |-> gep.val,
                                val |-> src.val])
           inc == CreateBin(ir8, "add", Reg(r3), DtoConstSize_t(1))
           ir9 == Emit(inc.ir, [op |-> "store", addr |-> Const(itr),
                                val |-> inc.val])
           ir10 == Emit(ir9, [op |-> "br", t |-> condbb])
       IN SetScope(ir10, endbb)

\* copySlice: the overlap-checked runtime copy, or a plain memcpy.
copySlice(ir, dstarr, sz1, srcarr, sz2, knownInBounds, checksEnabled, unit) ==
  IF checksEnabled /\ ~knownInBounds
  THEN Emit(ir, [op |-> "call", fn |-> "_d_array_slice_copy",
                 dst |-> dstarr, dstlen |-> sz1, src |-> srcarr,
                 srclen |-> sz2, unit |-> unit])
  ELSE Emit(ir, [op |-> "memcpy", dst |-> dstarr, src |-> srcarr,
                 size |-> sz1, unit |-> unit])

\* arrayNeedsPostblit: the flattened element type is a struct with postblit.
arrayNeedsPostblit(et) == et.ty = "Tstruct" /\ et.postblit

\* DtoSetArrayToNull: one store of the null {length, ptr} pair.
DtoSetArrayToNull(ir, v) ==
  Emit(ir, [op |-> "storenull", addr |-> Const(v.addr)])

\* DtoSetArray: length to field 0, pointer to field 1.
DtoSetArraySwapped(ir, array, dim, ptr) ==
  Emit(Emit(ir, [op |-> "store", addr |-> Const(array.addr + 1), val |-> dim]),
       [op |-> "store", addr |-> Const(array.addr), val |-> ptr])

DtoSetArray(ir, array, dim, ptr) ==
  Emit(Emit(ir, [op |-> "store", addr |-> Const(array.addr), val |-> dim]),
       [op |-> "store", addr |-> Const(array.addr + 1), val |-> ptr])

\* The runtime entry DtoArrayAssign calls for an assignment from an array.
ArrayAssignEntrySwapped(canSkipPostblit) ==
  IF canSkipPostblit THEN "_d_arrayassign_l" ELSE "_d_arrayassign_r"

ArrayAssignEntry(canSkipPostblit) ==
  IF ~canSkipPostblit THEN "_d_arrayassign_l" ELSE "_d_arrayassign_r"

\* The two tests DtoArrayAssign makes before taking a fast path.
NeedsDestructionIgnored(op, et) == FALSE

NeedsDestruction(op, et) ==
  ~(op = "TOKconstruct" \/ op = "TOKblit") /\ et.needsDestruction

NeedsPostblitArrayOnBlit(op, et, canSkipPostblit, rhs) ==
  arrayNeedsPostblit(et) /\ (~canSkipPostblit \/ rhs.ty = "Tarray")

NeedsPostblitArray(op, et, canSkipPostblit, rhs) ==
  op # "TOKblit" /\ arrayNeedsPostblit(et)
    /\ (~canSkipPostblit \/ rhs.ty = "Tarray")

NeedsPostblitScalar(op, et, canSkipPostblit) ==
  op # "TOKblit" /\ ~canSkipPostblit /\ arrayNeedsPostblit(et)

\* knownInBounds of the fast array path: a construction, or a static array
\* assigned from a static array.
KnownInBoundsNever(isConstructing, lhs, rhs) == FALSE

KnownInBounds(isConstructing, lhs, rhs) ==
  isConstructing \/ (lhs.ty = "Tsarray" /\ rhs.ty = "Tsarray")

\* The byte size of the destination computed on the fast array path.
LhsSizeFromRhs(ir, elemSize, lhsLength, rhsLength) ==
  CreateBin(ir, "mul", elemSize, rhsLength)

LhsSize(ir, elemSize, lhsLength, rhsLength) ==
  CreateBin(ir, "mul", elemSize, lhsLength)

\* DtoArrayAssign.  lhs.esz is the byte size of lhs's element type et; an
\* array rhs has the same element layout when its element size and type
\* agree (rhs.same); checksEnabled is useAssert || emitArrayBoundsChecks().
DtoArrayAssign(ir, lhs, rhs, op, canSkipPostblit, et, checksEnabled) ==
  IF lhs.ty = "Tarray" /\ ~lhs.isSlice
  THEN \* reference assignment for dynamic array
       IF rhs.isNull
       THEN DtoSetArrayToNull(ir, lhs)
       ELSE LET l == DtoArrayLen(ir, rhs)
                p == DtoArrayPtr(l.ir, rhs)
            IN DtoSetArray(p.ir, lhs, l.val, p.val)
  ELSE
  LET isConstructing == (op = "TOKconstruct" \/ op = "TOKblit")
      needsDestruction == NeedsDestruction(op, et)
      lp == DtoArrayPtr(ir, lhs)
      ll == DtoArrayLen(lp.ir, lhs)
      lhsPtr == lp.val
      lhsLength == ll.val
      ir0 == ll.ir
  IN
  IF rhs.ty \in {"Tarray", "Tsarray"} /\ rhs.same
  THEN LET rp == DtoArrayPtr(ir0, rhs)
           rl == DtoArrayLen(rp.ir, rhs)
           rhsPtr == rp.val
           rhsLength == rl.val
           ir1 == rl.ir
           needsPostblit == NeedsPostblitArray(op, et, canSkipPostblit, rhs)
       IN IF ~needsDestruction /\ ~needsPostblit
          THEN \* fast version
               LET elemSize == DtoConstSize_t(lhs.esz)
                   lhsSize == LhsSize(ir1, elemSize, lhsLength, rhsLength)
               IN IF rhs.isNull
                  THEN Emit(lhsSize.ir,
                            [op |-> "memset", dst |-> lhsPtr,
                             val |-> Const(0), size |-> lhsSize.val,
                             unit |-> lhs.esz])
                  ELSE LET rhsSize == CreateBin(lhsSize.ir, "mul", elemSize,
                                                rhsLength)
                           knownInBounds ==
                             KnownInBounds(isConstructing, lhs, rhs)
                       IN copySlice(rhsSize.ir, lhsPtr, lhsSize.val, rhsPtr,
                                    rhsSize.val, knownInBounds, checksEnabled,
                                    lhs.esz)
          ELSE IF isConstructing
          THEN Emit(ir1, [op |-> "call", fn |-> "_d_arrayctor",
                          src |-> [len |-> rhsLength, ptr |-> rhsPtr],
                          dst |-> [len |-> lhsLength, ptr |-> lhsPtr]])
          ELSE \* assigning
               LET tmpSwap == AllocaAddr(ir1)
               IN Emit(NewAlloca(ir1),
                       [op |-> "call", fn |-> ArrayAssignEntry(canSkipPostblit),
                        src |-> [len |-> rhsLength, ptr |-> rhsPtr],
                        dst |-> [len |-> lhsLength, ptr |-> lhsPtr],
                        tmp |-> Const(tmpSwap)])
  ELSE \* scalar rhs
       LET needsPostblit == NeedsPostblitScalar(op, et, canSkipPostblit)
       IN IF ~needsDestruction /\ ~needsPostblit
          THEN \* fast version
               LET elemSize == DtoConstSize_t(lhs.esz)
                   lhsSize == CreateBin(ir0, "mul", elemSize, lhsLength)
                   rhsSize == DtoConstSize_t(rhs.esz)
                   actualLength == CreateBin(lhsSize.ir, "udiv", lhsSize.val,
                                             rhsSize)
               IN DtoArrayInit(actualLength.ir, lhsPtr, actualLength.val, rhs,
                               rhs.esz)
          ELSE LET tmp == AllocaAddr(ir0)
                   \* makeLValue: an rvalue is dumped into a stack slot
                   mk == IF rhs.isLVal
                         THEN [ir |-> ir0, val |-> Const(rhs.addr)]
                         ELSE [ir |-> Emit(NewAlloca(ir0),
                                           [op |-> "store",
                                            addr |-> Const(tmp),
                                            val |-> Const(rhs.val)]),
                               val |-> Const(tmp)]
               IN Emit(mk.ir,
                       [op |-> "call",
                        fn |-> IF isConstructing THEN "_d_arraysetctor"
                                                 ELSE "_d_arraysetassign",
                        dst |-> lhsPtr, value |-> mk.val,
                        count |-> lhsLength, tsize |-> rhs.esz])

\* ----------------------------------------------------------- array literals
\* Expressions, as far as the lowering looks at them: the operator, the
\* result of Expression::isConst(), the value, the LLVM type of the constant
\* it folds to (lltype), and whether toInPlaceConstruction succeeds on it.
IntegerExp(v, lltype) ==
  [op |-> "TOKint64", isConst |-> 1, val |-> v, lltype |-> lltype,
   inPlace |-> FALSE]
SymOffExp ==
  [op |-> "TOKsymoff", isConst |-> 2, val |-> 3, lltype |-> "T",
   inPlace |-> FALSE]
VarExp ==
  [op |-> "TOKvar", isConst |-> 0, val |-> 0, lltype |-> "T",
   inPlace |-> FALSE]
CallExp ==
  [op |-> "TOKcall", isConst |-> 0, val |-> 5, lltype |-> "T",
   inPlace |-> TRUE]
NullExp == [op |-> "null"]
ArrayLiteralExp(elements, basis) ==
  [op |-> "TOKarrayliteral", isConst |-> 0, elements |-> elements,
   basis |-> basis]

\* indexArrayLiteral: element idx, or the basis where the element is null.
indexArrayLiteral(ale, idx) ==
  IF ale.elements[idx].op = "null" THEN ale.basis ELSE ale.elements[idx]

\* isConstLiteral taking every non-zero isConst() for constant.
isConstLiteralNonZero(e) ==
  IF e.op = "TOKarrayliteral"
  THEN \A i \in 1..Len(e.elements) : indexArrayLiteral(e, i).isConst # 0
  ELSE e.isConst # 0

\* isConstLiteral: array literals element by element; anything else is
\* constant when isConst() is exactly 1.
isConstLiteral(e) ==
  IF e.op = "TOKarrayliteral"
  THEN \A i \in 1..Len(e.elements) : indexArrayLiteral(e, i).isConst = 1
  ELSE e.isConst = 1

\* arrayLiteralToConst: the constants of the elements; a packed struct when
\* their LLVM types differ, an array otherwise.
arrayLiteralToConst(ale) ==
  LET vals == [i \in 1..Len(ale.elements) |-> indexArrayLiteral(ale, i)]
      differentTypes ==
        \E i \in 1..Len(vals) : vals[i].lltype # vals[1].lltype
  IN [kind |-> IF differentTypes THEN "struct" ELSE "array",
      packed |-> differentTypes,
      vals |-> [i \in 1..Len(vals) |-> vals[i].val],
      types |-> [i \in 1..Len(vals) |-> vals[i].lltype]]

\* The largest literal stored inline (elemCount <= 4).
InlineLimit == 4

\* Element i (from 0) of a literal that is not constant: built in place when
\* that is possible, else evaluated and blitted into its slot.
RECURSIVE StoreElements(_, _, _, _)
StoreElements(ir, ale, dstMem, i) ==
  IF i >= Len(ale.elements) THEN ir
  ELSE LET rhsExp == indexArrayLiteral(ale, i + 1)
           lhsPtr == Const(dstMem + i)
           ir1 ==
             IF rhsExp.inPlace
             THEN Emit(ir, [op |-> "construct", addr |-> lhsPtr,
                            val |-> Const(rhsExp.val), index |-> i])
             ELSE IF rhsExp.op = "TOKvar"
             THEN LET r == ir.nreg + 1
                  IN Emit(Emit(NewReg(ir),
                               [op |-> "load", addr |-> Const(ScalarAddr),
                                dst |-> r, name |-> "var"]),
                          [op |-> "store", addr |-> lhsPtr, val |-> Reg(r),
                           index |-> i])
             ELSE Emit(ir, [op |-> "store", addr |-> lhsPtr,
                            val |-> Const(rhsExp.val), index |-> i])
       IN StoreElements(ir1, ale, dstMem, i + 1)

\* initializeArrayLiteral: construct the literal ale at dstMem.
initializeArrayLiteral(ir, ale, dstMem) ==
  LET elemCount == Len(ale.elements) IN
  IF elemCount = 0 THEN ir
  ELSE IF isConstLiteral(ale)
  THEN LET constarr == arrayLiteralToConst(ale) IN
       IF elemCount <= InlineLimit
       THEN Emit(ir, [op |-> "storeconst", addr |-> Const(dstMem),
                      vals |-> constarr.vals, kind |-> constarr.kind])
       ELSE LET gvar == Len(ir.globals) + 1
                ir1 == [ir EXCEPT !.globals =
                          Append(@, [name |-> ".arrayliteral",
                                     isConstant |-> TRUE,
                                     init |-> constarr])]
            IN Emit(ir1, [op |-> "memcpyglobal", dst |-> Const(dstMem),
                          src |-> gvar,
                          size |-> DtoConstSize_t(Len(constarr.vals))])
  ELSE StoreElements(ir, ale, dstMem, 0)

\* ------------------------------------------------------------------ append
\* The expressions appended: an integer constant, and a[$ - back], an
\* element of the array being grown, taken as an lvalue or as an rvalue.
IndexExp(back, isLVal) ==
  [op |-> "TOKindex", isConst |-> 0, back |-> back, isLVal |-> isLVal]

\* A call of a function that appends the element 9 to the array `appends`
\* times (0 or 1) and returns 5.
AppenderCallExp(appends) ==
  [op |-> "TOKcall", isConst |-> 0, appends |-> appends]

\* toElem(exp) for the appended expression.  A call is emitted as a call.  An index expression loads the
\* array's fields and computes the element's address; as an lvalue its
\* value is loaded where it is used, as an rvalue it is loaded here.
toElem(ir, array, exp) ==
  IF exp.op = "TOKint64"
  THEN [ir |-> ir, val |-> Const(exp.val), isLVal |-> FALSE]
  ELSE IF exp.op = "TOKcall"
  THEN [ir |-> Emit(NewReg(ir),
                    [op |-> "call", fn |-> "appender",
                     ref |-> Const(array.addr), appends |-> exp.appends,
                     dst |-> ir.nreg + 1]),
        val |-> Reg(ir.nreg + 1), isLVal |-> FALSE]
  ELSE LET l == DtoArrayLen(ir, array)
           i == CreateBin(l.ir, "sub", l.val, DtoConstSize_t(exp.back))
           q == DtoArrayPtr(i.ir, array)
           a == CreateBin(q.ir, "add", q.val, i.val)
       IN IF exp.isLVal
          THEN [ir |-> a.ir, val |-> a.val, isLVal |-> TRUE]
          ELSE LET r == a.ir.nreg + 1
               IN [ir |-> Emit(NewReg(a.ir),
                               [op |-> "load", addr |-> a.val, dst |-> r,
                                name |-> ".elem"]),
                   val |-> Reg(r), isLVal |-> FALSE]

\* The call of _d_arrayappendcTX(ti, &array, 1).
CallAppendcTX(ir, array) ==
  LET r == ir.nreg + 1
  IN Emit(NewReg(ir),
          [op |-> "call", fn |-> "_d_arrayappendcTX",
           ref |-> Const(array.addr), extra |-> DtoConstSize_t(1),
           dst |-> r, name |-> ".appendedArray"])

\* The end of DtoCatAssignElement with the postblit called on the slot
\* before the value is blitted into it.
StoreLastElemPostblitFirst(ir, array, oldLength, expVal, et) ==
  LET q == DtoArrayPtr(ir, array)
      lastElem == CreateBin(q.ir, "add", q.val, oldLength)
      hooked == IF arrayNeedsPostblit(et) /\ expVal.isLVal
                THEN Emit(lastElem.ir,
                          [op |-> "postblit", addr |-> lastElem.val])
                ELSE lastElem.ir
      v == IF expVal.isLVal
           THEN LET r == hooked.nreg + 1
                IN [ir |-> Emit(NewReg(hooked),
                                [op |-> "load", addr |-> expVal.val,
                                 dst |-> r, name |-> ".rval"]),
                    val |-> Reg(r)]
           ELSE [ir |-> hooked, val |-> expVal.val]
  IN Emit(v.ir, [op |-> "store", addr |-> lastElem.val,
                 val |-> v.val, name |-> ".lastElem"])

\* The end of DtoCatAssignElement: the pointer is loaded again, the last
\* element's address is ptr + oldLength, the value is blitted into it and
\* the postblit, if the element type has one, is called on it.
StoreLastElem(ir, array, oldLength, expVal, et) ==
  LET q == DtoArrayPtr(ir, array)
      lastElem == CreateBin(q.ir, "add", q.val, oldLength)
      v == IF expVal.isLVal
           THEN LET r == lastElem.ir.nreg + 1
                IN [ir |-> Emit(NewReg(lastElem.ir),
                                [op |-> "load", addr |-> expVal.val,
                                 dst |-> r, name |-> ".rval"]),
                    val |-> Reg(r)]
           ELSE [ir |-> lastElem.ir, val |-> expVal.val]
      stored == Emit(v.ir, [op |-> "store", addr |-> lastElem.val,
                            val |-> v.val, name |-> ".lastElem"])
  IN IF arrayNeedsPostblit(et) /\ expVal.isLVal
     THEN Emit(stored, [op |-> "postblit", addr |-> lastElem.val])
     ELSE stored

\* DtoCatAssignElement with the expression evaluated after the growth call.
DtoCatAssignElementLate(ir, array, exp, et) ==
  LET l == DtoArrayLen(ir, array)
      grown == CallAppendcTX(l.ir, array)
      expVal == toElem(grown, array, exp)
  IN StoreLastElem(expVal.ir, array, l.val, expVal, et)

\* DtoCatAssignElement: array ~= exp.
DtoCatAssignElement(ir, array, exp, et) ==
  LET l == DtoArrayLen(ir, array)
      expVal == toElem(l.ir, array, exp)
      grown == CallAppendcTX(expVal.ir, array)
  IN StoreLastElem(grown, array, l.val, expVal, et)

\* ------------------------------------------------------------ concatenation
\* A concatenation e1 ~ e2, and an operand that is not one: its DValue v
\* and its position pos in the source, from the left.
CatExp(e1, e2) == [op |-> "TOKcat", e1 |-> e1, e2 |-> e2]
Operand(v, pos) == [op |-> "operand", v |-> v, pos |-> pos]

\* makeLValue: the address of a value; an rvalue is stored to a fresh slot.
makeLValue(ir, v) ==
  IF v.isLVal
  THEN [ir |-> ir, val |-> Const(v.addr)]
  ELSE LET tmp == AllocaAddr(ir)
       IN IF v.ty = "Tarray"
          THEN [ir |-> Emit(Emit(NewAllocaN(ir, RefWords),
                                 [op |-> "store", addr |-> Const(tmp),
                                  val |-> Const(v.len)]),
                            [op |-> "store", addr |-> Const(tmp + 1),
                             val |-> Const(v.ptr)]),
                val |-> Const(tmp)]
          ELSE [ir |-> Emit(NewAlloca(ir),
                            [op |-> "store", addr |-> Const(tmp),
                             val |-> Const(v.val)]),
                val |-> Const(tmp)]

\* DtoSlicePtr: the operand is evaluated, and the address of a
\* {length, ptr} record for it is returned: the dynamic array itself, or a
\* fresh record holding the static dimension, or 1 for a single element.
DtoSlicePtr(ir, e) ==
  LET dval == e.v
      ir0 == Emit(ir, [op |-> "toElem", pos |-> e.pos])
  IN IF dval.ty = "Tarray"
     THEN makeLValue(ir0, dval)
     ELSE LET isStaticArray == dval.ty = "Tsarray"
              val == IF isStaticArray
                     THEN [ir |-> ir0, val |-> Const(dval.addr)]
                     ELSE makeLValue(ir0, dval)
              array == AllocaAddr(val.ir)
              len == IF isStaticArray
                     THEN DtoArrayLen(NewAllocaN(val.ir, RefWords), dval)
                     ELSE [ir |-> NewAllocaN(val.ir, RefWords),
                           val |-> DtoConstSize_t(1)]
          IN [ir |-> Emit(Emit(len.ir,
                               [op |-> "store", addr |-> Const(array),
                                val |-> len.val]),
                          [op |-> "store", addr |-> Const(array + 1),
                           val |-> val.val]),
              val |-> Const(array)]

\* arrs.push_back(DtoSlicePtr(e)); w is the code so far and arrs.
PushSlice(w, e) ==
  LET s == DtoSlicePtr(w.ir, e)
  IN [ir |-> s.ir, arrs |-> Append(w.arrs, s.val)]

\* The do-while of DtoCatArrays: the right operands of the chain, from the
\* outermost concatenation inwards, and then the innermost left operand.
RECURSIVE WalkCat(_, _)
WalkCat(w, ce) ==
  IF ce.e1.op = "TOKcat"
  THEN WalkCat(PushSlice(w, ce.e2), ce.e1)
  ELSE PushSlice(PushSlice(w, ce.e2), ce.e1)

\* The i-th record stored (from 0) is the i-th of arrs from its end.
SliceAtForward(arrs, i) == arrs[i + 1]

SliceAt(arrs, i) == arrs[Len(arrs) - i]

\* A {length, ptr} pair is loaded from addr into two registers.
LoadSlice(ir, addr) ==
  LET r == ir.nreg + 1
  IN [ir |-> Emit(Emit(NewReg(NewReg(ir)),
                       [op |-> "load", addr |-> Const(addr), dst |-> r,
                        name |-> ".len"]),
                  [op |-> "load", addr |-> Const(addr + 1), dst |-> r + 1,
                   name |-> ".ptr"]),
      val |-> [len |-> Reg(r), ptr |-> Reg(r + 1)]]

\* A loaded pair v is stored at addr.
StoreSlice(v, addr) ==
  Emit(Emit(v.ir, [op |-> "store", addr |-> Const(addr), val |-> v.val.len]),
       [op |-> "store", addr |-> Const(addr + 1), val |-> v.val.ptr])

\* The for loop of DtoCatArrays: record i of the static array is loaded
\* from its own record and stored.
RECURSIVE StoreSlices(_, _, _, _)
StoreSlices(ir, arrs, array, i) ==
  IF i = Len(arrs) THEN ir
  ELSE StoreSlices(StoreSlice(LoadSlice(ir, SliceAt(arrs, i).v),
                              array + i * RefWords),
                   arrs, array, i + 1)

\* The static array .slicearray of all records.
SliceArray(w) ==
  [ir |-> StoreSlices(NewAllocaN(w.ir, RefWords * Len(w.arrs)), w.arrs,
                      AllocaAddr(w.ir), 0),
   array |-> AllocaAddr(w.ir), size |-> Len(w.arrs)]

\* The byte[][] value passed: .array = {arrs.size(), &.slicearray}, loaded.
ArrayOfSlices(sa) ==
  LoadSlice(Emit(Emit(NewAllocaN(sa.ir, RefWords),
                      [op |-> "store", addr |-> Const(AllocaAddr(sa.ir)),
                       val |-> DtoConstSize_t(sa.size)]),
                 [op |-> "store", addr |-> Const(AllocaAddr(sa.ir) + 1),
                  val |-> Const(sa.array)]),
            AllocaAddr(sa.ir))

CallCatnTX(val) ==
  Emit(NewReg(val.ir),
       [op |-> "call", fn |-> "_d_arraycatnTX", arrs |-> val.val,
        dst |-> val.ir.nreg + 1, name |-> ".appendedArray"])

\* args.push_back(DtoLoad(DtoSlicePtr(e))) of the binary case.
PushLoaded(w, e) ==
  LET s == DtoSlicePtr(w.ir, e)
      v == LoadSlice(s.ir, s.val.v)
  IN [ir |-> v.ir, arrs |-> Append(w.arrs, v.val)]

CallCatT(w) ==
  Emit(NewReg(w.ir),
       [op |-> "call", fn |-> "_d_arraycatT", x |-> w.arrs[1],
        y |-> w.arrs[2], dst |-> w.ir.nreg + 1, name |-> ".appendedArray"])

\* DtoCatArrays: exp1 ~ exp2.
DtoCatArrays(ir, exp1, exp2) ==
  IF exp1.op = "TOKcat"
  THEN \* handle multiple concat
       CallCatnTX(ArrayOfSlices(SliceArray(
         WalkCat(PushSlice([ir |-> ir, arrs |-> <<>>], exp2), exp1))))
  ELSE CallCatT(PushLoaded(PushLoaded([ir |-> ir, arrs |-> <<>>], exp1),
                           exp2))

\* ------------------------------------------------------ constant initializers
\* An LLVM constant of a type, and the null pointer of the slot table.
LLConst(v, lltype) == [val |-> v, lltype |-> lltype]
NullConst == [val |-> 0, lltype |-> "null"]

\* ArrayInitializer::dim as the frontend leaves it: one past the highest
\* slot an entry names, an entry without an index following the previous.
RECURSIVE InitDim(_, _, _, _)
InitDim(index, i, length, dim) ==
  IF i > Len(index) THEN dim
  ELSE LET l == (IF index[i].present THEN index[i].val ELSE length) + 1
       IN InitDim(index, i + 1, l, IF l > dim THEN l ELSE dim)

\* An ArrayInitializer: index[i] is entry i's index expression or NoIndex,
\* value[i] the constant its initializer folds to.
ArrayInitializer(index, value) ==
  [index |-> index, value |-> value, dim |-> InitDim(index, 1, 0, 0)]

\* A target type: a static array or vector of dim elements, a dynamic
\* array or a pointer; llelemty is the LLVM type of its elements and
\* defaultInit the constant the element type's default initializer folds to.
TargetType(ty, dim, defaultInit) ==
  [ty |-> ty, dim |-> dim, llelemty |-> "T", defaultInit |-> defaultInit]

\* The slot of an entry: its index if it has one, else the slot j after
\* the previous entry's.
EntrySlotPositional(idx, j) == j

EntrySlot(idx, j) == IF idx.present THEN idx.val ELSE j

\* The first loop: entry i goes to slot j.  st holds initvals, mismatch,
\* the diagnostics printed and whether assert(j < arrlen) failed.
\* The first loop leaving at the first duplicate it reports.
RECURSIVE ScanInitializersStopAtDuplicate(_, _, _, _, _, _)
ScanInitializersStopAtDuplicate(arrinit, arrlen, llelemty, i, j0, st) ==
  IF i > Len(arrinit.index) THEN st
  ELSE LET idx == arrinit.index[i]
           j == EntrySlot(idx, j0)
       IN IF ~(j < arrlen)
          THEN [st EXCEPT !.asserted = TRUE]
          ELSE IF st.initvals[j + 1] # NullConst
          THEN [st EXCEPT !.diags =
                  Append(@, [msg |-> "duplicate initialization",
                             index |-> j])]
          ELSE ScanInitializersStopAtDuplicate(
                 arrinit, arrlen, llelemty, i + 1, j + 1,
                 [st EXCEPT !.mismatch = @ \/ arrinit.value[i].lltype # llelemty,
                            !.initvals[j + 1] = arrinit.value[i]])

RECURSIVE ScanInitializers(_, _, _, _, _, _)
ScanInitializers(arrinit, arrlen, llelemty, i, j0, st) ==
  IF i > Len(arrinit.index) THEN st
  ELSE LET idx == arrinit.index[i]
           j == EntrySlot(idx, j0)
       IN IF ~(j < arrlen)
          THEN [st EXCEPT !.asserted = TRUE]
          ELSE LET c == arrinit.value[i]
                   st1 == [st EXCEPT
                     !.diags = IF st.initvals[j + 1] # NullConst
                               THEN Append(@, [msg |-> "duplicate initialization",
                                               index |-> j])
                               ELSE @,
                     !.mismatch = @ \/ c.lltype # llelemty,
                     !.initvals[j + 1] = c]
               IN ScanInitializers(arrinit, arrlen, llelemty, i + 1,
                                   j + 1, st1)

\* The second loop computing the default anew for every null slot.
RECURSIVE FillDefaultsEachSlot(_, _, _, _)
FillDefaultsEachSlot(arrlen, target, i, st) ==
  IF i >= arrlen THEN st
  ELSE IF st.initvals[i + 1] # NullConst
  THEN FillDefaultsEachSlot(arrlen, target, i + 1, st)
  ELSE FillDefaultsEachSlot(arrlen, target, i + 1,
         [st EXCEPT !.elemDefaultInit = target.defaultInit,
                    !.ndefault = @ + 1,
                    !.mismatch =
                       @ \/ target.defaultInit.lltype # target.llelemty,
                    !.initvals[i + 1] = target.defaultInit])

\* The second loop: the null slots get the element's default initializer,
\* which is computed when the first of them is met.
RECURSIVE FillDefaults(_, _, _, _)
FillDefaults(arrlen, target, i, st) ==
  IF i >= arrlen THEN st
  ELSE IF st.initvals[i + 1] # NullConst
  THEN FillDefaults(arrlen, target, i + 1, st)
  ELSE LET st1 == IF st.elemDefaultInit = NullConst
                  THEN [st EXCEPT
                          !.elemDefaultInit = target.defaultInit,
                          !.ndefault = @ + 1,
                          !.mismatch =
                             @ \/ target.defaultInit.lltype # target.llelemty]
                  ELSE st
       IN FillDefaults(arrlen, target, i + 1,
                       [st1 EXCEPT !.initvals[i + 1] = st1.elemDefaultInit])

\* "make sure the number of initializers is sane"
TooManyInitializersByCount(arrinit, arrlen) == Len(arrinit.index) > arrlen

TooManyInitializers(arrinit, arrlen) ==
  Len(arrinit.index) > arrlen \/ arrinit.dim > arrlen

\* DtoConstSlice: the constant struct {dim, ptr}, its fields in the order
\* they are given to LLConstantStruct::get.
DtoConstSliceSwapped(dim, ptr) ==
  [kind |-> "slice", fields |-> <<ptr, dim>>]

DtoConstSlice(dim, ptr) ==
  [kind |-> "slice", fields |-> <<dim, ptr>>]

\* DtoArrayType: the struct type of a dynamic array, field by field.
DtoArrayType == <<"size_t", "ptr">>

\* DtoExtractValue(agg, k): field k, counted from 0, of a struct value.
DtoExtractValue(agg, k) == agg.fields[k + 1]

\* getSlice: the slice value of a struct value whose type is not the array
\* type itself: .len is field 0, .ptr is field 1.
getSlice(array, esz) ==
  DynSlice(DtoExtractValue(array, 0).v, DtoExtractValue(array, 1).v, esz)

\* A constant address: the bitcast of global number gvar.
GlobalRef(gvar) == [kind |-> "pointer", global |-> gvar]

\* new LLGlobalVariable(..., false, InternalLinkage, constarr, ".constarray")
ConstArrayGlobalReadOnly(constarr) ==
  [name |-> ".constarray", isConstant |-> TRUE, init |-> constarr]

ConstArrayGlobal(constarr) ==
  [name |-> ".constarray", isConstant |-> FALSE, init |-> constarr]

\* The value the function returns once the constant is built.
ConstArrayResult(ir, target, constarr) ==
  IF target.ty \in {"Tsarray", "Tvector"}
  THEN [ir |-> ir, gvar |-> 0, ret |-> "constarr", value |-> constarr]
  ELSE LET gvar == Len(ir.globals) + 1
           ir1 == [ir EXCEPT !.globals = Append(@, ConstArrayGlobal(constarr))]
       IN IF target.ty = "Tpointer"
          THEN [ir |-> ir1, gvar |-> gvar, ret |-> "pointer",
                value |-> GlobalRef(gvar)]
          ELSE [ir |-> ir1, gvar |-> gvar, ret |-> "slice",
                value |-> DtoConstSlice(DtoConstSize_t(constarr.dim),
                                        GlobalRef(gvar))]

\* DtoConstArrayInitializer.  errors is global.errors at the call.
DtoConstArrayInitializer(ir, arrinit, target, errors) ==
  LET arrlen == IF target.ty = "Tsarray" THEN target.dim ELSE arrinit.dim
      st0 == [initvals |-> [k \in 1..arrlen |-> NullConst],
              mismatch |-> FALSE, diags |-> <<>>, asserted |-> FALSE,
              elemDefaultInit |-> NullConst, ndefault |-> 0,
              fatal |-> FALSE, arrlen |-> arrlen, constarr |-> "none",
              ret |-> "none", gvar |-> 0, value |-> [kind |-> "none"]]
  IN IF TooManyInitializers(arrinit, arrlen)
     THEN [ir |-> ir,
           st |-> [st0 EXCEPT !.diags = <<[msg |-> "too many initializers",
                                           index |-> Len(arrinit.index)]>>,
                              !.fatal = TRUE]]
     ELSE
     LET st1 == ScanInitializers(arrinit, arrlen, target.llelemty, 1, 0, st0)
     IN IF st1.asserted THEN [ir |-> ir, st |-> st1]
        ELSE IF errors + Len(st1.diags) > 0
        THEN [ir |-> ir, st |-> [st1 EXCEPT !.fatal = TRUE]]
        ELSE
        LET st2 == FillDefaults(arrlen, target, 0, st1)
            kind == IF st2.mismatch THEN "struct"
                    ELSE IF target.ty = "Tvector" THEN "vector" ELSE "array"
            st3 == [st2 EXCEPT !.constarr = kind]
            \* LLConstantStruct::getAnon(context, initvals) does not pack
            res == ConstArrayResult(ir, target,
                     [kind |-> kind, packed |-> FALSE,
                      vals |-> st3.initvals, dim |-> arrlen])
        IN [ir |-> res.ir,
            st |-> [st3 EXCEPT !.gvar = res.gvar, !.ret = res.ret,
                               !.value = res.value]]

\* -------------------------------------------------------------------- casts
\* A cast's target type: its kind, a static array's dimension, and the byte
\* size of its element type.
ToType(ty, dim, esz) == [ty |-> ty, dim |-> dim, esz |-> esz]

\* DtoArrayCastLength: the length of a slice whose element size changes from
\* esz to nsz; len is returned as it is when the sizes agree.
DtoArrayCastLengthSwapped(ir, len, esz, nsz) ==
  IF esz = nsz
  THEN [ir |-> ir, val |-> len]
  ELSE LET r == ir.nreg + 1
       IN [ir |-> Emit(NewReg(ir),
                       [op |-> "call", fn |-> "_d_array_cast_len",
                        args |-> <<len, DtoConstSize_t(nsz),
                                   DtoConstSize_t(esz)>>,
                        dst |-> r]),
           val |-> Reg(r)]

\* DtoArrayCastLength scaling the length in line when one size divides the
\* other, and calling the runtime only otherwise.
DtoArrayCastLengthScaled(ir, len, esz, nsz) ==
  IF esz = nsz
  THEN [ir |-> ir, val |-> len]
  ELSE IF esz % nsz = 0
  THEN CreateBin(ir, "mul", len, DtoConstSize_t(esz \div nsz))
  ELSE IF nsz % esz = 0
  THEN CreateBin(ir, "udiv", len, DtoConstSize_t(nsz \div esz))
  ELSE LET r == ir.nreg + 1
       IN [ir |-> Emit(NewReg(ir),
                       [op |-> "call", fn |-> "_d_array_cast_len",
                        args |-> <<len, DtoConstSize_t(esz),
                                   DtoConstSize_t(nsz)>>,
                        dst |-> r]),
           val |-> Reg(r)]

DtoArrayCastLength(ir, len, esz, nsz) ==
  IF esz = nsz
  THEN [ir |-> ir, val |-> len]
  ELSE LET r == ir.nreg + 1
       IN [ir |-> Emit(NewReg(ir),
                       [op |-> "call", fn |-> "_d_array_cast_len",
                        args |-> <<len, DtoConstSize_t(esz),
                                   DtoConstSize_t(nsz)>>,
                        dst |-> r]),
           val |-> Reg(r)]

\* The index DtoCastArray checks before a slice is reinterpreted as a static
\* array of dim elements of tsz bytes: size_t arithmetic, fsz the slice's
\* element size.
CastCheckIndex(dim, tsz, fsz) ==
  ((((dim * tsz) % WordMod) - 1) % WordMod) \div fsz

\* DtoCastArray.  The result: fatal (a diagnostic and fatal()), or the kind of
\* DValue built with its length and pointer operands.  Bit casts of pointers
\* change no value and emit nothing here.
DtoCastArray(ir, u, to) ==
  IF u.ty \notin {"Tarray", "Tsarray"}
  THEN [ir |-> ir, fatal |-> TRUE, kind |-> "none",
        len |-> Const(0), ptr |-> Const(0)]
  ELSE IF to.ty = "Tpointer"
  THEN LET p == DtoArrayPtr(ir, u)
       IN [ir |-> p.ir, fatal |-> FALSE, kind |-> "DImValue",
           len |-> Const(0), ptr |-> p.val]
  ELSE IF to.ty = "Tarray"
  THEN IF u.ty = "Tsarray" /\ (u.len * u.esz) % to.esz # 0
       THEN [ir |-> ir, fatal |-> TRUE, kind |-> "none",
             len |-> Const(0), ptr |-> Const(0)]
       ELSE LET l == IF u.ty = "Tsarray"
                     THEN [ir |-> ir, val |-> DtoConstSize_t(u.len)]
                     ELSE DtoArrayLen(ir, u)
                p == IF u.ty = "Tsarray"
                     THEN [ir |-> l.ir, val |-> Const(u.addr)]
                     ELSE DtoArrayPtr(l.ir, u)
                c == IF u.esz # to.esz
                     THEN DtoArrayCastLength(p.ir, l.val, u.esz, to.esz)
                     ELSE [ir |-> p.ir, val |-> l.val]
            IN [ir |-> c.ir, fatal |-> FALSE, kind |-> "DSliceValue",
                len |-> c.val, ptr |-> p.val]
  ELSE IF to.ty = "Tsarray"
  THEN IF u.ty = "Tsarray"
       THEN [ir |-> ir, fatal |-> FALSE, kind |-> "DLValue",
             len |-> Const(to.dim), ptr |-> Const(u.addr)]
       ELSE LET i == CastCheckIndex(to.dim, to.esz, u.esz)
                ir1 == DtoIndexBoundsCheck(ir, u, Index(i))
                p == DtoArrayPtr(ir1, u)
            IN [ir |-> p.ir, fatal |-> FALSE, kind |-> "DLValue",
                len |-> Const(to.dim), ptr |-> p.val]
  ELSE IF to.ty = "Tbool"
  THEN LET p == DtoArrayPtr(ir, u)
           r == p.ir.nreg + 1
       IN [ir |-> Emit(NewReg(p.ir),
                       [op |-> "icmp", pred |-> "ne", a |-> p.val,
                        b |-> Const(0), dst |-> r]),
           fatal |-> FALSE, kind |-> "DImValue",
           len |-> Const(0), ptr |-> Reg(r)]
  ELSE LET p == DtoArrayPtr(ir, u)
       IN [ir |-> p.ir, fatal |-> FALSE, kind |-> "DLValue",
           len |-> Const(0), ptr |-> p.val]

\* ---------------------------------------------------------------- equality
\* eqTokToICmpPred: the predicate of == and !=, the other one if invert.
eqTokToICmpPred(op, invert) ==
  IF (op = "TOKequal") # invert THEN "eq" ELSE "ne"

\* The result of CreateICmp(pred, a, b).
CreateICmp(ir, pred, a, b) ==
  [ir |-> Emit(NewReg(ir), [op |-> "icmp", pred |-> pred, a |-> a, b |-> b,
                            dst |-> ir.nreg + 1]),
   val |-> Reg(ir.nreg + 1)]

\* The call of DtoArrayEqCmp_impl with both operands as slices.
CallEqCmp(func, lc, rc, useti) ==
  [ir |-> Emit(NewReg(rc.ir),
               [op |-> "call", fn |-> func,
                l |-> [len |-> lc.len, ptr |-> lc.ptr],
                r |-> [len |-> rc.len, ptr |-> rc.ptr],
                useti |-> useti, dst |-> rc.ir.nreg + 1]),
   val |-> Reg(rc.ir.nreg + 1)]

\* DtoArrayEqCmp_impl: both operands are cast to the dynamic array type of
\* l's elements and passed to the runtime entry func.
DtoArrayEqCmp_impl(ir, func, l, r, useti) ==
  LET common == ToType("Tarray", 0, l.esz)
      lc == DtoCastArray(ir, l, common)
      rc == DtoCastArray(lc.ir, r, common)
  IN CallEqCmp(func, lc, rc, useti)

\* The predicate the result of _adEq2 is compared against 0 with.
EqualsCallPredicateNotInverted(op) == eqTokToICmpPred(op, FALSE)

EqualsCallPredicate(op) == eqTokToICmpPred(op, TRUE)

\* The result of the deep comparison compared against 0.
CompareResult(res, op) ==
  CreateICmp(res.ir, EqualsCallPredicate(op), res.val, Const(0))

\* DtoArrayEquals: l == r or l != r.
DtoArrayEquals(ir, op, l, r) ==
  IF r.isNull
  THEN \* comparison against null rewritten to l.length op 0
       LET n == DtoArrayLen(ir, l)
       IN CreateICmp(n.ir, eqTokToICmpPred(op, FALSE), n.val,
                     DtoConstSize_t(0))
  ELSE CompareResult(DtoArrayEqCmp_impl(ir, "_adEq2", l, r, TRUE), op)

\* ------------------------------------------------------------ the runtime
\* rescale-length(len, oldElemSize, newElemSize): the length after a cast;
\* traps when the byte count is no multiple of the new element size.
d_array_cast_len(len, elemsz, newelemsz) ==
  [trap |-> ((len * elemsz) % newelemsz # 0),
   val |-> (len * elemsz) \div newelemsz]

\* Element-wise copies of n cells, in ascending and in descending order.
RECURSIVE CopyFwd(_, _, _, _)
CopyFwd(m, d, s, n) ==
  IF n = 0 THEN m ELSE CopyFwd([m EXCEPT ![d] = m[s]], d + 1, s + 1, n - 1)

RECURSIVE CopyBwd(_, _, _, _)
CopyBwd(m, d, s, n) ==
  IF n = 0 THEN m
  ELSE CopyBwd([m EXCEPT ![d + n - 1] = m[s + n - 1]], d, s, n - 1)

Overlap(d, s, n) == n > 0 /\ d < s + n /\ s < d + n

Fill(m, d, n, v) == [a \in DOMAIN m |-> IF a >= d /\ a < d + n THEN v ELSE m[a]]

\* slice-copy-checked(dst, dstLen, src, srcLen): lengths in bytes; traps
\* when they differ or the ranges overlap.
d_array_slice_copy(m, dst, dstlen, src, srclen, unit) ==
  IF dstlen # srclen \/ Overlap(dst, src, dstlen \div unit)
  THEN [trap |-> TRUE, mem |-> m, n |-> 0]
  ELSE [trap |-> FALSE, mem |-> CopyFwd(m, dst, src, dstlen \div unit),
        n |-> dstlen \div unit]

\* array-construct(type, src, dst): element-wise construct dst from src.
d_arrayctor(m, src, srclen, dst, dstlen) ==
  IF dstlen # srclen \/ Overlap(dst, src, dstlen)
  THEN [trap |-> TRUE, mem |-> m, n |-> 0]
  ELSE [trap |-> FALSE, mem |-> CopyFwd(m, dst, src, dstlen), n |-> dstlen]

\* array-assign-aliasing(type, src, dst, scratch): element-wise assign
\* tolerating overlap: descending when dst lies inside src, else ascending.
d_arrayassign_l(m, src, srclen, dst, dstlen) ==
  IF dstlen # srclen
  THEN [trap |-> TRUE, mem |-> m, n |-> 0]
  ELSE [trap |-> FALSE,
        mem |-> IF src < dst /\ dst < src + srclen
                THEN CopyBwd(m, dst, src, dstlen)
                ELSE CopyFwd(m, dst, src, dstlen),
        n |-> dstlen]

\* array-assign-raw(type, src, dst, scratch): element-wise assign in
\* ascending order, non-aliasing assumed.
d_arrayassign_r(m, src, srclen, dst, dstlen) ==
  IF dstlen # srclen
  THEN [trap |-> TRUE, mem |-> m, n |-> 0]
  ELSE [trap |-> FALSE, mem |-> CopyFwd(m, dst, src, dstlen), n |-> dstlen]

\* set-construct / set-assign(type, elemPtr, dst, count): count copies of
\* the scalar at elemPtr.
d_arrayset(m, dst, value, count) ==
  [trap |-> FALSE, mem |-> Fill(m, dst, count, m[value]), n |-> count]

\* append-capacity(type, ref, extra): the array at ref grows by extra
\* elements, in place or in a fresh block the old contents are copied to;
\* the old block stays as it was.  The new elements are not initialized.
d_arrayappendcTX(m, ref, extra) ==
  LET len == m[ref]
      ptr == m[ref + 1]
      fresh == IF ptr = 0 THEN DataBase ELSE ptr + len
      moved == [CopyFwd(m, fresh, ptr, len) EXCEPT ![ref] = len + extra,
                                                  ![ref + 1] = fresh]
      inPlace == [m EXCEPT ![ref] = len + extra]
  IN IF ptr = 0 THEN {moved} ELSE {inPlace, moved}

\* concat(type, x, y) and concat-n(type, slices): a fresh array holding the
\* operands' elements in order; the records read and the length of the
\* result.
RECURSIVE SumLen(_)
SumLen(recs) ==
  IF recs = <<>> THEN 0 ELSE recs[1].len + SumLen(Tail(recs))

d_arraycat(recs) == [arrs |-> recs, len |-> SumLen(recs) % WordMod]

\* deep-equal(a, b, typeInfo): 1 when the lengths and all elements agree,
\* else 0.
adEq2(m, l, r) ==
  IF l.len = r.len /\ \A i \in 0..(l.len - 1) : m[l.ptr + i] = m[r.ptr + i]
  THEN 1 ELSE 0

\* ------------------------------------------------------------- interpreter
Val(o) == IF o.k = "c" THEN o.v ELSE regs[o.v]

Cur ==
  [phase |-> phase, xbb |-> xbb, xip |-> xip, regs |-> regs,
   trace |-> trace, rtcalls |-> rtcalls, reads |-> reads,
   writes |-> writes, mem |-> mem]

Cells(a, n) == {c \in DOMAIN mem : c >= a /\ c < a + n}

\* The result of a runtime entry that copies or fills n cells at dst.
AfterCall(ins, r, dst, src) ==
  IF r.trap
  THEN [Cur EXCEPT !.phase = "trap",
                   !.rtcalls = Append(@, [fn |-> ins.fn])]
  ELSE [Cur EXCEPT !.xip = @ + 1,
                   !.rtcalls = Append(@, [fn |-> ins.fn]),
                   !.mem = r.mem,
                   !.reads = @ \cup src,
                   !.writes = @ \cup Cells(dst, r.n)]

\* The states one instruction can lead to.  A memcpy of overlapping ranges
\* is undefined: either copy order may be what the build does.
Outcomes(ins) ==
  CASE ins.op = "load" ->
         {[Cur EXCEPT !.regs[ins.dst] = mem[Val(ins.addr)],
                      !.reads = @ \cup {Val(ins.addr)},
                      !.xip = @ + 1]}
    [] ins.op = "store" ->
         {[Cur EXCEPT !.mem[Val(ins.addr)] = Val(ins.val),
                      !.writes = @ \cup {Val(ins.addr)},
                      !.xip = @ + 1]}
    [] ins.op = "storenull" ->
         {[Cur EXCEPT !.mem = Fill(mem, Val(ins.addr), RefWords, 0),
                      !.writes = @ \cup Cells(Val(ins.addr), RefWords),
                      !.xip = @ + 1]}
    [] ins.op = "icmp" ->
         {[Cur EXCEPT !.regs[ins.dst] =
                         IF ICmp(ins.pred, Val(ins.a), Val(ins.b))
                         THEN 1 ELSE 0,
                      !.xip = @ + 1]}
    [] ins.op = "mul" ->
         {[Cur EXCEPT !.regs[ins.dst] = (Val(ins.a) * Val(ins.b)) % WordMod,
                      !.xip = @ + 1]}
    [] ins.op = "add" ->
         {[Cur EXCEPT !.regs[ins.dst] = (Val(ins.a) + Val(ins.b)) % WordMod,
                      !.xip = @ + 1]}
    [] ins.op = "sub" ->
         {[Cur EXCEPT !.regs[ins.dst] = (Val(ins.a) - Val(ins.b)) % WordMod,
                      !.xip = @ + 1]}
    [] ins.op = "postblit" ->
         {[Cur EXCEPT !.rtcalls = Append(@, [fn |-> "postblit"]),
                      !.xip = @ + 1]}
    [] ins.op = "call" /\ ins.fn = "_d_arrayappendcTX" ->
         {[Cur EXCEPT !.mem = m,
                      !.regs[ins.dst] = m[Val(ins.ref) + 1],
                      !.rtcalls = Append(@, [fn |-> ins.fn]),
                      !.writes = @ \cup Cells(Val(ins.ref), RefWords),
                      !.xip = @ + 1] :
            m \in d_arrayappendcTX(mem, Val(ins.ref), Val(ins.extra))}
    [] ins.op = "call" /\ ins.fn = "appender" ->
         IF ins.appends = 0
         THEN {[Cur EXCEPT !.regs[ins.dst] = 5,
                           !.rtcalls = Append(@, [fn |-> ins.fn]),
                           !.xip = @ + 1]}
         ELSE {[Cur EXCEPT !.mem = [m EXCEPT ![m[Val(ins.ref) + 1]
                                               + m[Val(ins.ref)] - 1] = 9],
                           !.regs[ins.dst] = 5,
                           !.rtcalls = Append(@, [fn |-> ins.fn]),
                           !.xip = @ + 1] :
                 m \in d_arrayappendcTX(mem, Val(ins.ref), 1)}
    [] ins.op = "toElem" ->
         {[Cur EXCEPT !.xip = @ + 1]}
    [] ins.op = "call" /\ ins.fn = "_d_arraycatT" ->
         LET r == d_arraycat(<<[len |-> Val(ins.x.len), ptr |-> Val(ins.x.ptr)],
                               [len |-> Val(ins.y.len), ptr |-> Val(ins.y.ptr)]>>)
         IN {[Cur EXCEPT !.regs[ins.dst] = r.len,
                         !.rtcalls = Append(@, [fn |-> ins.fn,
                                                arrs |-> r.arrs]),
                         !.xip = @ + 1]}
    [] ins.op = "call" /\ ins.fn = "_d_arraycatnTX" ->
         LET n == Val(ins.arrs.len)
             at == Val(ins.arrs.ptr)
             r == d_arraycat([i \in 1..n |->
                                [len |-> mem[at + (i - 1) * RefWords],
                                 ptr |-> mem[at + (i - 1) * RefWords + 1]]])
         IN {[Cur EXCEPT !.regs[ins.dst] = r.len,
                         !.rtcalls = Append(@, [fn |-> ins.fn,
                                                arrs |-> r.arrs]),
                         !.reads = @ \cup Cells(at, n * RefWords),
                         !.xip = @ + 1]}
    [] ins.op = "call" /\ ins.fn = "_adEq2" ->
         LET l == [len |-> Val(ins.l.len), ptr |-> Val(ins.l.ptr)]
             r == [len |-> Val(ins.r.len), ptr |-> Val(ins.r.ptr)]
             ret == adEq2(mem, l, r)
         IN {[Cur EXCEPT !.regs[ins.dst] = ret,
                         !.rtcalls = Append(@, [fn |-> ins.fn, ret |-> ret,
                                                useti |-> ins.useti,
                                                l |-> l, r |-> r]),
                         !.reads = @ \cup Cells(l.ptr, l.len)
                                     \cup Cells(r.ptr, r.len),
                         !.xip = @ + 1]}
    [] ins.op = "udiv" ->
         {[Cur EXCEPT !.regs[ins.dst] = Val(ins.a) \div Val(ins.b),
                      !.xip = @ + 1]}
    [] ins.op = "br" ->
         {[Cur EXCEPT !.xbb = ins.t, !.xip = 1,
                      !.trace = Append(@, ins.t)]}
    [] ins.op = "condbr" ->
         LET to == IF Val(ins.cond) = 1 THEN ins.t ELSE ins.f
         IN {[Cur EXCEPT !.xbb = to, !.xip = 1, !.trace = Append(@, to)]}
    [] ins.op = "memset" ->
         LET n == Val(ins.size) \div ins.unit
         IN {[Cur EXCEPT !.mem = Fill(mem, Val(ins.dst), n, Val(ins.val)),
                         !.writes = @ \cup Cells(Val(ins.dst), n),
                         !.xip = @ + 1]}
    [] ins.op = "memcpy" ->
         LET n == Val(ins.size) \div ins.unit
             d == Val(ins.dst)
             s == Val(ins.src)
         IN {[Cur EXCEPT !.mem = m,
                         !.reads = @ \cup Cells(s, n),
                         !.writes = @ \cup Cells(d, n),
                         !.xip = @ + 1] :
               m \in IF Overlap(d, s, n)
                     THEN {CopyFwd(mem, d, s, n), CopyBwd(mem, d, s, n)}
                     ELSE {CopyFwd(mem, d, s, n)}}
    [] ins.op = "construct" ->
         {[Cur EXCEPT !.mem[Val(ins.addr)] = Val(ins.val),
                      !.writes = @ \cup {Val(ins.addr)},
                      !.xip = @ + 1]}
    [] ins.op = "storeconst" ->
         {[Cur EXCEPT !.mem = [a \in DOMAIN mem |->
                                 IF a \in Cells(Val(ins.addr), Len(ins.vals))
                                 THEN ins.vals[a - Val(ins.addr) + 1]
                                 ELSE mem[a]],
                      !.writes = @ \cup Cells(Val(ins.addr), Len(ins.vals)),
                      !.xip = @ + 1]}
    [] ins.op = "memcpyglobal" ->
         LET g == gIR.globals[ins.src].init.vals
             n == Val(ins.size)
         IN {[Cur EXCEPT !.mem = [a \in DOMAIN mem |->
                                    IF a \in Cells(Val(ins.dst), n)
                                    THEN g[a - Val(ins.dst) + 1]
                                    ELSE mem[a]],
                         !.writes = @ \cup Cells(Val(ins.dst), n),
                         !.xip = @ + 1]}
    [] ins.op = "unreachable" ->
         {[Cur EXCEPT !.phase = "undefined"]}
    [] ins.op = "call" /\ ins.fn = "_d_arraybounds" ->
         \* fatal, does not return
         {[Cur EXCEPT !.phase = "trap",
                      !.rtcalls = Append(@, [fn |-> ins.fn])]}
    [] ins.op = "call" /\ ins.fn = "_d_array_cast_len" ->
         LET r == d_array_cast_len(Val(ins.args[1]), Val(ins.args[2]),
                                   Val(ins.args[3]))
         IN {IF r.trap
             THEN [Cur EXCEPT !.phase = "trap",
                              !.rtcalls = Append(@, [fn |-> ins.fn])]
             ELSE [Cur EXCEPT !.regs[ins.dst] = r.val,
                              !.rtcalls = Append(@, [fn |-> ins.fn]),
                              !.xip = @ + 1]}
    [] ins.op = "call" /\ ins.fn = "_d_array_slice_copy" ->
         {AfterCall(ins,
                    d_array_slice_copy(mem, Val(ins.dst), Val(ins.dstlen),
                                       Val(ins.src), Val(ins.srclen),
                                       ins.unit),
                    Val(ins.dst),
                    Cells(Val(ins.src), Val(ins.srclen) \div ins.unit))}
    [] ins.op = "call" /\ ins.fn = "_d_arrayctor" ->
         {AfterCall(ins,
                    d_arrayctor(mem, Val(ins.src.ptr), Val(ins.src.len),
                                Val(ins.dst.ptr), Val(ins.dst.len)),
                    Val(ins.dst.ptr),
                    Cells(Val(ins.src.ptr), Val(ins.src.len)))}
    [] ins.op = "call" /\ ins.fn = "_d_arrayassign_l" ->
         {AfterCall(ins,
                    d_arrayassign_l(mem, Val(ins.src.ptr), Val(ins.src.len),
                                    Val(ins.dst.ptr), Val(ins.dst.len)),
                    Val(ins.dst.ptr),
                    Cells(Val(ins.src.ptr), Val(ins.src.len)))}
    [] ins.op = "call" /\ ins.fn = "_d_arrayassign_r" ->
         {AfterCall(ins,
                    d_arrayassign_r(mem, Val(ins.src.ptr), Val(ins.src.len),
                                    Val(ins.dst.ptr), Val(ins.dst.len)),
                    Val(ins.dst.ptr),
                    Cells(Val(ins.src.ptr), Val(ins.src.len)))}
    [] ins.op = "call"
         /\ ins.fn \in {"_d_arraysetctor", "_d_arraysetassign"} ->
         {AfterCall(ins,
                    d_arrayset(mem, Val(ins.dst), Val(ins.value),
                               Val(ins.count)),
                    Val(ins.dst), {Val(ins.value)})}

\* One instruction of the emitted code.  Falling off the end of the open
\* block stands for the rest of the function body.
ExecStep ==
  /\ phase = "run"
  /\ UNCHANGED <<gIR, calls>>
  /\ \E o \in IF xip > Len(gIR.blocks[xbb].instrs)
              THEN {[Cur EXCEPT !.phase = "done"]}
              ELSE Outcomes(gIR.blocks[xbb].instrs[xip]) :
       /\ phase' = o.phase
       /\ xbb' = o.xbb
       /\ xip' = o.xip
       /\ regs' = o.regs
       /\ trace' = o.trace
       /\ rtcalls' = o.rtcalls
       /\ reads' = o.reads
       /\ writes' = o.writes
       /\ mem' = o.mem

\* The emitted function starts running at its entry block.
StartExec ==
  /\ phase = "emit"
  /\ calls # <<>>
  /\ phase' = "run"
  /\ xbb' = 1
  /\ xip' = 1
  /\ regs' = [r \in 1..gIR.nreg |-> 0]
  /\ trace' = <<1>>
  /\ rtcalls' = <<>>
  /\ reads' = {}
  /\ writes' = {}
  /\ UNCHANGED <<gIR, calls, mem>>

\* ------------------------------------------------------------------- Init
EmptyFunction ==
  [blocks |-> <<[label |-> "entry", instrs |-> <<>>]>>, scopebb |-> 1,
   nreg |-> 0, nalloca |-> 0, globals |-> <<>>]

\* Memory before the emitted code runs: a has alen elements at DataBase, b
\* has blen elements right after a's first; element cell i holds 10 + i.
InitMem(alen, blen) ==
  [a \in 0..(MemTop - 1) |->
     IF a = ARef THEN alen
     ELSE IF a = ARef + 1 THEN DataBase
     ELSE IF a = BRef THEN blen
     ELSE IF a = BRef + 1 THEN DataBase + 1
     ELSE IF a >= DataBase /\ a < ScratchBase THEN 10 + (a - DataBase)
     ELSE IF a = ScalarAddr THEN 9
     ELSE 0]

NothingEmitted ==
  /\ gIR = EmptyFunction
  /\ calls = <<>>
  /\ phase = "emit"
  /\ xbb = 1
  /\ xip = 1
  /\ regs = <<>>
  /\ trace = <<>>
  /\ rtcalls = <<>>
  /\ reads = {}
  /\ writes = {}

\* Array variable a holds some length and points at its storage.
Init ==
  /\ NothingEmitted
  /\ \E n \in 0..MaxLen : mem = InitMem(n, MaxLen - n)

\* ------------------------------------------------- lowering: bounds checks
\* Index values drawn: around the length, and the words a negative index
\* becomes.
IndexValues == (0..(MaxLen + 1)) \cup {WordMod \div 2, WordMod - 1}

\* The arrays a bounds check is asked for.
CheckedArrays ==
  {SArray(n, DataBase, 1) : n \in 0..MaxLen}
    \cup {DynLVal(ARef, 1), DynNull(1), Pointer(DataBase, 1)}
    \cup {DynSlice(n, DataBase, 1) : n \in 0..MaxLen}

\* The run-time length of an array value.
RtLen(v) == IF v.ty = "Tarray" /\ v.isLVal THEN mem[v.addr] ELSE v.len

\* A caller asks for a bounds check of arr[index].
EmitIndexBoundsCheck ==
  /\ phase = "emit"
  /\ calls = <<>>
  /\ \E arr \in CheckedArrays, index \in {NoIndex} \cup {Index(i) : i \in IndexValues} :
       LET ir == DtoIndexBoundsCheck(gIR, arr, index) IN
       /\ gIR' = ir
       /\ calls' = Append(calls,
            [fn |-> "DtoIndexBoundsCheck", arr |-> arr, index |-> index,
             frombb |-> gIR.scopebb, okbb |-> ir.scopebb,
             failbb |-> ir.scopebb + 1,
             checked |-> (ir.scopebb # gIR.scopebb)])
  /\ UNCHANGED <<phase, xvars, mem>>

\* ---------------------------------------------------------- lowering: casts
ElemSizes == {1, 2, 3, 4}

CastSources ==
  {SArray(n, DataBase, fs) : n \in 0..MaxLen, fs \in ElemSizes}
    \cup {DynSlice(n, DataBase, fs) : n \in 0..MaxLen, fs \in ElemSizes}
    \cup {DynLVal(ARef, fs) : fs \in ElemSizes}
    \cup {DynNull(fs) : fs \in ElemSizes}
    \cup {[ty |-> "Tint32", isNull |-> FALSE, isLVal |-> FALSE,
           isSlice |-> FALSE, len |-> 0, ptr |-> 0, addr |-> 0, esz |-> 4]}

CastTargets ==
  {ToType("Tpointer", 0, ts) : ts \in ElemSizes}
    \cup {ToType("Tarray", 0, ts) : ts \in ElemSizes}
    \cup {ToType("Tsarray", n, ts) : n \in 0..MaxLen, ts \in ElemSizes}
    \cup {ToType("Tbool", 0, 1), ToType("Tclass", 0, 1)}

\* A cast expression whose operand is an array is lowered.
EmitCastArray ==
  /\ phase = "emit"
  /\ calls = <<>>
  /\ \E u \in CastSources, to \in CastTargets :
       LET r == DtoCastArray(gIR, u, to) IN
       /\ gIR' = r.ir
       /\ calls' = Append(calls,
            [fn |-> "DtoCastArray", u |-> u, to |-> to, fatal |-> r.fatal,
             kind |-> r.kind, len |-> r.len, ptr |-> r.ptr,
             frombb |-> gIR.scopebb, okbb |-> r.ir.scopebb,
             failbb |-> r.ir.scopebb + 1,
             checked |-> (r.ir.scopebb # gIR.scopebb)])
       /\ phase' = IF r.fatal THEN "fatal" ELSE "emit"
  /\ UNCHANGED <<xvars, mem>>

NextCast == EmitCastArray \/ StartExec \/ ExecStep
SpecCast == Init /\ [][NextCast]_vars

\* ----------------------------------------------------- lowering: assignment
\* An array right-hand side whose element layout is lhs's.
SameLayout(v) == [same |-> TRUE] @@ v

ElemTypes ==
  {ElemType("Tint32", FALSE, FALSE), ElemType("Tstruct", FALSE, FALSE),
   ElemType("Tstruct", TRUE, FALSE), ElemType("Tstruct", FALSE, TRUE),
   ElemType("Tstruct", TRUE, TRUE)}

\* Destinations: the array variable a (a reference binding), slices of the
\* element storage and static arrays in it.
AssignLhs(esz) ==
  {DynLVal(ARef, esz)}
    \cup {DynSlice(n, DataBase + o, esz) : n \in 0..MaxLen, o \in {0, 1}}
    \cup {SArray(n, DataBase + 1, esz) : n \in 0..MaxLen}

AssignRhsArrays(esz) ==
  {SameLayout(v) :
     v \in {DynLVal(BRef, esz), DynNull(esz)}
             \cup {DynSlice(n, DataBase + o, esz) :
                     n \in 0..MaxLen, o \in {0, 1}}
             \cup {SArray(n, DataBase, esz) : n \in 0..MaxLen}}

AssignRhsScalars(size) ==
  {ScalarConst(0, size), ScalarConst(7, size), ScalarRVal(7, size),
   ScalarLVal(ScalarAddr, size)}

\* The (lhs, rhs) pairs drawn.  A scalar is broadcast into elements of its
\* own size or into static sub-arrays of two scalars.
AssignPairs ==
  UNION {AssignLhs(esz) \X AssignRhsArrays(esz) : esz \in {1, 4}}
    \cup UNION {(AssignLhs(k * size) \ {DynLVal(ARef, k * size)})
                  \X AssignRhsScalars(size) :
                  k \in {1, 2}, size \in {1, 4}}

\* An assignment or initialization of an array is lowered.
EmitArrayAssign ==
  /\ phase = "emit"
  /\ calls = <<>>
  /\ \E pr \in AssignPairs, et \in ElemTypes,
        op \in {"TOKconstruct", "TOKblit", "TOKassign"},
        canSkipPostblit \in BOOLEAN, checksEnabled \in BOOLEAN :
       /\ gIR' = DtoArrayAssign(gIR, pr[1], pr[2], op, canSkipPostblit, et,
                                checksEnabled)
       /\ calls' = Append(calls,
            [fn |-> "DtoArrayAssign", lhs |-> pr[1], rhs |-> pr[2],
             op |-> op, canSkipPostblit |-> canSkipPostblit, et |-> et,
             checksEnabled |-> checksEnabled])
  /\ UNCHANGED <<phase, xvars, mem>>

\* The element expressions a literal is drawn from; a null element stands
\* for the literal's basis.
LiteralElements ==
  {IntegerExp(1, "T"), IntegerExp(2, "U"), VarExp, CallExp, NullExp}

RECURSIVE SeqsUpTo(_, _)
SeqsUpTo(S, n) ==
  IF n = 0 THEN {<<>>}
  ELSE LET shorter == SeqsUpTo(S, n - 1)
       IN shorter \cup {Append(q, x) : q \in {t \in shorter : Len(t) = n - 1},
                                     x \in S}

\* An array literal is constructed into the element storage.
EmitArrayLiteral ==
  /\ phase = "emit"
  /\ calls = <<>>
  /\ \E elements \in SeqsUpTo(LiteralElements, MaxLit),
        basis \in {IntegerExp(4, "T"), SymOffExp} :
       LET ale == ArrayLiteralExp(elements, basis) IN
       /\ gIR' = initializeArrayLiteral(gIR, ale, DataBase)
       /\ calls' = Append(calls,
            [fn |-> "initializeArrayLiteral", ale |-> ale,
             dstMem |-> DataBase])
  /\ UNCHANGED <<phase, xvars, mem>>

AssignMem == InitMem(1, 2)

InitAssign ==
  /\ NothingEmitted
  /\ mem = AssignMem

NextAssign == EmitArrayAssign \/ EmitArrayLiteral \/ StartExec \/ ExecStep
SpecAssign == InitAssign /\ [][NextAssign]_vars

\* ------------------------------------------------------- lowering: append
\* What the source language gives the expressions appended so far: a
\* constant is its value, a[$ - back] is the element appended back appends
\* earlier.
RECURSIVE Appended(_)
Appended(cs) ==
  IF cs = <<>> THEN <<>>
  ELSE LET before == Appended(SubSeq(cs, 1, Len(cs) - 1))
           e == cs[Len(cs)].exp
       IN Append(before,
                 IF e.op = "TOKint64" THEN e.val
                 ELSE before[Len(before) + 1 - e.back])

AppendExps(n) ==
  {IntegerExp(7 + n, "T")}
    \cup {IndexExp(back, lv) : back \in 1..n, lv \in BOOLEAN}

\* a ~= exp is lowered; an index expression stays within the array.
EmitCatAssignElement ==
  /\ phase = "emit"
  /\ Len(calls) < MaxLen
  /\ \E exp \in AppendExps(Len(calls)),
        et \in {ElemType("Tint32", FALSE, FALSE),
                ElemType("Tstruct", FALSE, TRUE)} :
       /\ calls # <<>> => et = calls[1].et
       /\ gIR' = DtoCatAssignElement(gIR, DynLVal(ARef, 4), exp, et)
       /\ calls' = Append(calls,
            [fn |-> "DtoCatAssignElement", array |-> DynLVal(ARef, 4),
             exp |-> exp, et |-> et])
  /\ UNCHANGED <<phase, xvars, mem>>

\* The array a is empty (null) and the heap is free.
AppendMem == [a \in 0..(MemTop - 1) |-> 0]

InitAppend ==
  /\ NothingEmitted
  /\ mem = AppendMem

NextAppend == EmitCatAssignElement \/ StartExec \/ ExecStep
SpecAppend == InitAppend /\ [][NextAppend]_vars

\* a ~= exp is lowered once for an array of some elements, where exp may be
\* a call of a function that itself appends to a.
EmitCatAssignCall ==
  /\ phase = "emit"
  /\ calls = <<>>
  /\ \E exp \in {IntegerExp(7, "T")}
                 \cup {IndexExp(back, lv) : back \in 1..mem[ARef],
                                             lv \in BOOLEAN}
                 \cup {AppenderCallExp(k) : k \in {0, 1}},
        et \in {ElemType("Tint32", FALSE, FALSE),
                ElemType("Tstruct", FALSE, TRUE)} :
       /\ gIR' = DtoCatAssignElement(gIR, DynLVal(ARef, 4), exp, et)
       /\ calls' = Append(calls,
            [fn |-> "DtoCatAssignElement", array |-> DynLVal(ARef, 4),
             exp |-> exp, et |-> et])
  /\ UNCHANGED <<phase, xvars, mem>>

\* The array a has up to MaxLen - 1 elements; the heap after them is free.
InitAppendCall ==
  /\ NothingEmitted
  /\ \E n \in 0..(MaxLen - 1) :
       mem = [InitMem(n, 0) EXCEPT ![ARef + 1] = IF n = 0 THEN 0 ELSE DataBase]

NextAppendCall == EmitCatAssignCall \/ StartExec \/ ExecStep
SpecAppendCall == InitAppendCall /\ [][NextAppendCall]_vars

\* ------------------------------------------------ lowering: concatenation
\* The operands drawn: the array variable a, a slice rvalue, a static
\* array, and single elements.
CatOperands ==
  {DynLVal(ARef, 4), DynSlice(2, DataBase + 1, 4), SArray(3, DataBase, 4),
   ScalarLVal(ScalarAddr, 4), ScalarRVal(7, 4)}

\* The left-nested chain vs[1] ~ vs[2] ~ ... ~ vs[n].
RECURSIVE Chain(_, _)
Chain(vs, n) ==
  IF n = 1 THEN Operand(vs[1], 1)
  ELSE CatExp(Chain(vs, n - 1), Operand(vs[n], n))

\* A concatenation of two or more operands is lowered.
EmitCatArrays ==
  /\ phase = "emit"
  /\ calls = <<>>
  /\ \E n \in 2..MaxCat :
       \E vs \in [1..n -> CatOperands] :
         LET ce == Chain(vs, n) IN
         /\ gIR' = DtoCatArrays(gIR, ce.e1, ce.e2)
         /\ calls' = Append(calls,
              [fn |-> "DtoCatArrays", exp1 |-> ce.e1, exp2 |-> ce.e2,
               operands |-> vs])
  /\ UNCHANGED <<phase, xvars, mem>>

CatMem == InitMem(1, 2)

InitCat ==
  /\ NothingEmitted
  /\ mem = CatMem

NextCat == EmitCatArrays \/ StartExec \/ ExecStep
SpecCat == InitCat /\ [][NextCat]_vars

\* ----------------------------------------- lowering: constant initializers
\* Index expressions: none, or a slot number.
InitIndexes == {NoIndex} \cup {Index(k) : k \in 0..(MaxLen - 1)}

\* Entry i folds to the constant 20 + i of the element's LLVM type; the
\* first entry may fold to another type, as a member of a union does.
InitValues(i) ==
  {LLConst(20 + i, "T")} \cup (IF i = 1 THEN {LLConst(21, "U")} ELSE {})

ArrayInitializers ==
  UNION {{ArrayInitializer(index, value) :
            index \in [1..n -> InitIndexes],
            value \in {v \in [1..n -> UNION {InitValues(i) : i \in 1..n}] :
                         \A i \in 1..n : v[i] \in InitValues(i)}} :
         n \in 0..MaxLen}

TargetTypes ==
  {TargetType(ty, dim, d) :
     ty \in {"Tsarray", "Tarray", "Tpointer", "Tvector"},
     dim \in 0..MaxLen,
     d \in {LLConst(0, "T"), LLConst(0, "U")}}

\* The initializers lowered in one compilation.
MaxInits == 2

\* A compilation lowers the initializer of one declaration and, when that
\* was accepted, the same initializer once more for a second declaration,
\* of any target type.
InitializersNow ==
  IF calls = <<>> THEN ArrayInitializers ELSE {calls[1].arrinit}

\* global.errors at the call: no error is pending after an accepted call.
ErrorsNow == IF calls = <<>> THEN {0, 1} ELSE {0}

EmitConstArrayInitializer ==
  /\ phase = "emit"
  /\ Len(calls) < MaxInits
  /\ calls # <<>> =>
       ~(calls[Len(calls)].st.fatal \/ calls[Len(calls)].st.asserted)
  /\ \E arrinit \in InitializersNow, target \in TargetTypes,
        errors \in ErrorsNow :
       /\ target.ty # "Tsarray" => target.dim = 0
       /\ LET r == DtoConstArrayInitializer(gIR, arrinit, target, errors)
          IN /\ gIR' = r.ir
             /\ calls' = Append(calls,
                  [fn |-> "DtoConstArrayInitializer", arrinit |-> arrinit,
                   target |-> target, errors |-> errors, st |-> r.st])
  /\ UNCHANGED <<phase, xvars, mem>>

\* The call returned, or the compilation stopped.
FinishInit ==
  /\ phase = "emit"
  /\ calls # <<>>
  /\ phase' = IF \E k \in 1..Len(calls) :
                     calls[k].st.fatal \/ calls[k].st.asserted
              THEN "fatal" ELSE "compiled"
  /\ UNCHANGED <<gIR, calls, xvars, mem>>

InitInit ==
  /\ NothingEmitted
  /\ mem = InitMem(0, 0)

NextInit == EmitConstArrayInitializer \/ FinishInit
SpecInit == InitInit /\ [][NextInit]_vars

\* ----------------------------------------------------- lowering: equality
\* Element storage in which the cells at even and at odd offsets agree, so
\* that slices at different addresses can be equal.
EqMem ==
  [a \in 0..(MemTop - 1) |->
     IF a >= DataBase /\ a < ScratchBase THEN 10 + ((a - DataBase) % 2)
     ELSE InitMem(2, 2)[a]]

\* The operands compared: the array variable a, slices, static arrays and
\* the null literal.
EqOperands ==
  {DynLVal(ARef, 4), DynNull(4)}
    \cup {DynSlice(n, DataBase + o, 4) : n \in 0..MaxLen, o \in 0..2}
    \cup {SArray(n, DataBase + 1, 4) : n \in 1..MaxLen}

\* l == r or l != r on arrays is lowered.
EmitArrayEquals ==
  /\ phase = "emit"
  /\ calls = <<>>
  /\ \E l \in EqOperands, r \in EqOperands,
        op \in {"TOKequal", "TOKnotequal"} :
       LET res == DtoArrayEquals(gIR, op, l, r) IN
       /\ gIR' = res.ir
       /\ calls' = Append(calls,
            [fn |-> "DtoArrayEquals", op |-> op, l |-> l, r |-> r,
             res |-> res.val])
  /\ UNCHANGED <<phase, xvars, mem>>

InitEquals ==
  /\ NothingEmitted
  /\ mem = EqMem

NextEquals == EmitArrayEquals \/ StartExec \/ ExecStep
SpecEquals == InitEquals /\ [][NextEquals]_vars

\* ------------------------------------------------ lowering: array layout
\* The ways a dynamic array value is made: stored through DtoSetArray, as
\* the record DtoSlicePtr makes for an operand, as a constant slice read
\* back with getSlice, or given (a null, a static array).
LayoutSources ==
  {[how |-> "DtoSetArray", n |-> n, p |-> p, v |-> DynLVal(ARef, 4)] :
     n \in 0..MaxLen, p \in DataBase..(DataBase + MaxLen)}
    \cup {[how |-> "DtoConstSlice", n |-> n, p |-> p, v |-> DynNull(4)] :
             n \in 0..MaxLen, p \in DataBase..(DataBase + MaxLen)}
    \cup {[how |-> "DtoSlicePtr", n |-> v.len, p |-> v.addr, v |-> v] :
             v \in {SArray(n, p, 4) :
                      n \in 0..MaxLen, p \in DataBase..(DataBase + MaxLen)}}
    \cup {[how |-> "DtoSlicePtr", n |-> 1, p |-> ScalarAddr,
            v |-> ScalarLVal(ScalarAddr, 4)],
          [how |-> "DtoSlicePtr", n |-> 1, p |-> ScratchBase,
            v |-> ScalarRVal(7, 4)]}
    \cup {[how |-> "given", n |-> 0, p |-> 0, v |-> DynNull(4)]}
    \cup {[how |-> "given", n |-> v.len, p |-> v.addr, v |-> v] :
             v \in {SArray(n, p, 4) :
                      n \in 0..MaxLen, p \in DataBase..(DataBase + MaxLen)}}

\* The array value made, and the code that makes it.
LayoutMake(ir, src) ==
  IF src.how = "DtoSetArray"
  THEN [ir |-> DtoSetArray(ir, src.v, DtoConstSize_t(src.n), Const(src.p)),
        v |-> src.v]
  ELSE IF src.how = "DtoSlicePtr"
  THEN LET s == DtoSlicePtr(ir, Operand(src.v, 1))
       IN [ir |-> s.ir, v |-> DynLVal(s.val.v, 4)]
  ELSE IF src.how = "DtoConstSlice"
  THEN [ir |-> ir,
        v |-> getSlice(DtoConstSlice(DtoConstSize_t(src.n), Const(src.p)), 4)]
  ELSE [ir |-> ir, v |-> src.v]

\* An array value is made and its length and pointer are taken.
EmitLayout ==
  /\ phase = "emit"
  /\ calls = <<>>
  /\ \E src \in LayoutSources :
       LET made == LayoutMake(gIR, src)
           len == DtoArrayLen(made.ir, made.v)
           ptr == DtoArrayPtr(len.ir, made.v)
       IN /\ gIR' = ptr.ir
          /\ calls' = Append(calls,
               [fn |-> "layout", src |-> src, v |-> made.v,
                len |-> len.val, ptr |-> ptr.val])
  /\ UNCHANGED <<phase, xvars, mem>>

InitLayout ==
  /\ NothingEmitted
  /\ mem = InitMem(1, 2)

NextLayout == EmitLayout \/ StartExec \/ ExecStep
SpecLayout == InitLayout /\ [][NextLayout]_vars

\* --------------------------------------- lowering: fills and bounds checks
\* The emissions into one function body.
MaxEmits == 2

\* The scalars a fill writes: zero (a memory fill) and an lvalue (a loop).
FillValues == {ScalarConst(0, 4), ScalarLVal(ScalarAddr, 4)}

\* DtoArrayInit is asked to write length slots of the element storage; each
\* emission has its own destination.
EmitArrayInit ==
  /\ phase = "emit"
  /\ Len(calls) < MaxEmits
  /\ \E length \in 0..MaxLen, dvalue \in FillValues :
       LET ptr == DataBase + Len(calls) * MaxLen
           ir == DtoArrayInit(gIR, Const(ptr), DtoConstSize_t(length),
                              dvalue, 4) IN
       /\ gIR' = ir
       /\ calls' = Append(calls,
            [fn |-> "DtoArrayInit", ptr |-> ptr, length |-> length,
             dvalue |-> dvalue,
             frombb |-> gIR.scopebb, tobb |-> ir.scopebb,
             first |-> Len(gIR.blocks) + 1, last |-> Len(ir.blocks),
             itr |-> AllocaAddr(gIR)])
  /\ UNCHANGED <<phase, xvars, mem>>

\* A bounds check is emitted after what was emitted before.
EmitBoundsCheckNext ==
  /\ phase = "emit"
  /\ Len(calls) < MaxEmits
  /\ \E arr \in {DynLVal(ARef, 4), Pointer(DataBase, 4)},
        index \in {NoIndex, Index(1), Index(MaxLen)} :
       LET ir == DtoIndexBoundsCheck(gIR, arr, index) IN
       /\ gIR' = ir
       /\ calls' = Append(calls,
            [fn |-> "DtoIndexBoundsCheck", arr |-> arr, index |-> index,
             frombb |-> gIR.scopebb, tobb |-> ir.scopebb,
             first |-> Len(gIR.blocks) + 1, last |-> Len(ir.blocks)])
  /\ UNCHANGED <<phase, xvars, mem>>

InitEmits ==
  /\ NothingEmitted
  /\ mem = InitMem(2, 2)

NextEmits == EmitArrayInit \/ EmitBoundsCheckNext \/ StartExec \/ ExecStep
SpecEmits == InitEmits /\ [][NextEmits]_vars

\* The emitted code, once started, keeps running.
SpecEmitsFair == SpecEmits /\ WF_vars(ExecStep)

NextBounds == EmitIndexBoundsCheck \/ StartExec \/ ExecStep
SpecBounds == Init /\ [][NextBounds]_vars

\* ================================================================== claims
Range(q) == {q[i] : i \in 1..Len(q)}
Finished == phase \in {"done", "trap"}

\* The calls for which DtoIndexBoundsCheck has an array and an index.
BoundsChecked(c) ==
  /\ c.fn = "DtoIndexBoundsCheck"
  /\ c.arr.ty \in {"Tsarray", "Tarray"}
  /\ c.index.present

\* C1: for a fixed-length or dynamic array with an index supplied, the
\* continuation block bounds.ok is entered if and only if index < length as
\* unsigned words; for index = length and every index > length the trap
\* block bounds.fail is entered, it calls _d_arraybounds, and the
\* continuation block is never entered (the trap is final).
C1_BoundsHalfOpen ==
  \A k \in 1..Len(calls) :
    BoundsChecked(calls[k]) =>
      LET c == calls[k]
          inb == c.index.val < RtLen(c.arr)
      IN /\ (c.okbb \in Range(trace)) => inb
         /\ (c.failbb \in Range(trace)) => ~inb
         /\ Finished =>
              /\ (c.okbb \in Range(trace)) <=> inb
              /\ ~inb => /\ phase = "trap"
                         /\ trace[Len(trace)] = c.failbb
                         /\ rtcalls = <<[fn |-> "_d_arraybounds"]>>
         /\ phase = "trap" => c.okbb \notin Range(trace)

C1_Witness ==
  /\ phase = "trap"
  /\ Len(calls) = 1
  /\ BoundsChecked(calls[1])
  /\ calls[1].arr = DynLVal(ARef, 1)
  /\ calls[1].index.val = mem[ARef]
  /\ mem[ARef] > 0
  /\ trace = <<1, calls[1].failbb>>

\* C16: for a raw pointer (whatever the index) and for a call with no index
\* nothing is emitted: no compare, no branch, no trap block, and the
\* insertion block stays; for a fixed or dynamic array with an index the
\* compare, the branch and the trap block are always emitted.
C16_CheckEmittedIffIndexedArray ==
  \A c \in Range(calls) :
    c.fn = "DtoIndexBoundsCheck" =>
      IF c.arr.ty = "Tpointer" \/ ~c.index.present
      THEN /\ gIR = EmptyFunction
           /\ c.okbb = c.frombb
           /\ Finished => phase = "done" /\ rtcalls = <<>>
      ELSE /\ Len(gIR.blocks) = 3
           /\ gIR.scopebb = c.okbb
           /\ c.okbb # c.frombb
           /\ gIR.blocks[c.okbb].label = "bounds.ok"
           /\ gIR.blocks[c.failbb].label = "bounds.fail"
           /\ gIR.blocks[c.failbb].instrs
                = <<[op |-> "call", fn |-> "_d_arraybounds"],
                    [op |-> "unreachable"]>>
           /\ LET entry == gIR.blocks[c.frombb].instrs
                  n == Len(entry)
              IN /\ n >= 2
                 /\ entry[n - 1].op = "icmp"
                 /\ entry[n].op = "condbr"
                 /\ entry[n].cond = Reg(entry[n - 1].dst)
                 /\ entry[n].t = c.okbb
                 /\ entry[n].f = c.failbb
                 /\ \A i \in 1..(n - 2) : entry[i].op = "load"

\* A pointer indexed far past any length in the model: the code ran to its
\* end with nothing emitted.
C16_Witness ==
  /\ phase = "done"
  /\ Len(calls) = 1
  /\ calls[1].fn = "DtoIndexBoundsCheck"
  /\ calls[1].arr.ty = "Tpointer"
  /\ calls[1].index.present
  /\ calls[1].index.val > MaxLen
  /\ gIR = EmptyFunction

\* ----------------------------------------------------------- the fill loop
\* The k-th emission is a fill that took the loop.
FillLoop(k) ==
  /\ k <= Len(calls)
  /\ calls[k].fn = "DtoArrayInit"
  /\ calls[k].last = calls[k].first + 2

condbb(k) == calls[k].first
bodybb(k) == calls[k].first + 1
endbb(k) == calls[k].first + 2

\* How often control entered block b.
Visits(b) == Cardinality({i \in 1..Len(trace) : trace[i] = b})

\* The value the fill writes.
FillValue(c) == IF c.dvalue.isLVal THEN mem[c.dvalue.addr] ELSE c.dvalue.val

\* The cells of the k-th emission's destination.
FillRegion(k) == Cells(calls[k].ptr, MaxLen)

\* The run of the k-th fill loop so far.
FillLoopSafe(k) ==
  LET c == calls[k]
      bodies == Visits(bodybb(k))
      tests == Visits(condbb(k))
      written == writes \cap FillRegion(k)
  IN /\ gIR.blocks[condbb(k)].label = "arrayinit.cond"
     /\ gIR.blocks[bodybb(k)].label = "arrayinit.body"
     /\ gIR.blocks[endbb(k)].label = "arrayinit.end"
     /\ c.tobb = endbb(k)
     \* the test enters the body while index # c and the end when index = c
     /\ bodies <= c.length
     /\ tests \in {bodies, bodies + 1}
     /\ Visits(endbb(k)) <= 1
     /\ Visits(endbb(k)) = 1 => bodies = c.length /\ tests = c.length + 1
     /\ \A i \in 1..(Len(trace) - 1) :
          /\ trace[i] = bodybb(k) => trace[i + 1] = condbb(k)
          /\ trace[i] = condbb(k) => trace[i + 1] \in {bodybb(k), endbb(k)}
          /\ trace[i + 1] = condbb(k) => trace[i] \in {c.frombb, bodybb(k)}
          /\ trace[i + 1] \in {bodybb(k), endbb(k)} => trace[i] = condbb(k)
     \* the index starts at 0 and counts the bodies that have run
     /\ tests >= 1 => mem[c.itr] \in {bodies, bodies - 1}
     /\ (tests >= 1 /\ xbb # bodybb(k)) => mem[c.itr] = bodies
     \* the slots written are slots 0 .. index - 1, each the scalar
     /\ written = Cells(c.ptr, IF tests = 0 THEN 0 ELSE mem[c.itr])
          \/ (xbb = bodybb(k) /\ written = Cells(c.ptr, mem[c.itr] + 1))
     /\ \A a \in written : mem[a] = FillValue(c)
     /\ Visits(endbb(k)) = 1 => written = Cells(c.ptr, c.length)

FillLoopsSafe == \A k \in 1..Len(calls) : FillLoop(k) => FillLoopSafe(k)

\* C23: the fill loop terminates for every element count c >= 0.  The
\* index starts at 0; the test block enters the end block exactly when
\* index = c and otherwise the body, which writes slot [index], adds 1 to
\* the index and returns to the test; when the end block is reached slots
\* 0 .. c-1 have each been written once, in ascending order, with the
\* scalar, and no slot at c or above has been written; and once the test
\* block is entered the end block is reached.
C23_FillLoopTerminates ==
  /\ []FillLoopsSafe
  /\ \A k \in 1..MaxEmits :
       (FillLoop(k) /\ Visits(condbb(k)) > 0)
         ~> (FillLoop(k) /\ Visits(endbb(k)) = 1)

\* Two fills of 3 slots each ran to the end: each loop's test ran 4 times
\* and its body 3 times.
C23_Witness ==
  /\ phase = "done"
  /\ Len(calls) = 2
  /\ FillLoop(1) /\ FillLoop(2)
  /\ calls[1].length = 3 /\ calls[2].length = 3
  /\ calls[2].dvalue.isLVal
  /\ Visits(condbb(2)) = 4
  /\ Visits(bodybb(2)) = 3
  /\ trace[Len(trace)] = endbb(2)
  /\ \A i \in 0..2 : mem[calls[2].ptr + i] = mem[ScalarAddr]

\* The control transfers of block b, by position.
Terminators(b) ==
  {i \in 1..Len(gIR.blocks[b].instrs) :
     gIR.blocks[b].instrs[i].op \in {"br", "condbr", "unreachable"}}

\* Block b ends in its one control transfer, of kind op.
TerminatedBy(b, op) ==
  /\ Terminators(b) = {Len(gIR.blocks[b].instrs)}
  /\ gIR.blocks[b].instrs[Len(gIR.blocks[b].instrs)].op = op

\* The emission after the k-th, if any, has closed the block the k-th left
\* open; else that block is the insertion block.
LeftOpen(k) ==
  IF \E h \in (k + 1)..Len(calls) : calls[h].tobb # calls[h].frombb
  THEN Cardinality(Terminators(calls[k].tobb)) = 1
  ELSE gIR.scopebb = calls[k].tobb /\ Terminators(calls[k].tobb) = {}

\* C24: after any sequence of fill and bounds-check emissions every block
\* other than the insertion block has exactly one control transfer, its
\* last instruction, and the insertion block has none; a fill loop leaves
\* its entry, test and body blocks terminated and its end block open; a
\* bounds check leaves its entry block terminated by the conditional
\* branch, the trap block by unreachable and the continuation block open.
C24_BlocksTerminatedOnce ==
  /\ \A b \in 1..Len(gIR.blocks) :
       IF b = gIR.scopebb THEN Terminators(b) = {}
       ELSE Terminators(b) = {Len(gIR.blocks[b].instrs)}
  /\ \A k \in 1..Len(calls) :
       LET c == calls[k] IN
       /\ (c.fn = "DtoArrayInit" /\ c.tobb # c.frombb) =>
            /\ TerminatedBy(c.frombb, "br")
            /\ TerminatedBy(c.first, "condbr")
            /\ TerminatedBy(c.first + 1, "br")
            /\ c.tobb = c.first + 2
            /\ LeftOpen(k)
       /\ (c.fn = "DtoIndexBoundsCheck" /\ c.tobb # c.frombb) =>
            /\ TerminatedBy(c.frombb, "condbr")
            /\ gIR.blocks[c.tobb + 1].label = "bounds.fail"
            /\ TerminatedBy(c.tobb + 1, "unreachable")
            /\ gIR.blocks[c.tobb].label = "bounds.ok"
            /\ LeftOpen(k)
       /\ c.tobb = c.frombb => c.last = c.first - 1

\* A fill loop and then a bounds check: six blocks, the continuation block
\* open; the code ran into the trap.
C24_Witness ==
  /\ phase = "trap"
  /\ Len(calls) = 2
  /\ calls[1].fn = "DtoArrayInit" /\ calls[1].tobb = 4
  /\ calls[2].fn = "DtoIndexBoundsCheck" /\ calls[2].frombb = 4
  /\ Len(gIR.blocks) = 6
  /\ gIR.scopebb = 5
  /\ trace[Len(trace)] = 6

\* The casts of a slice to a static array that have finished running.
SliceToSArray(c) ==
  /\ c.fn = "DtoCastArray"
  /\ c.u.ty = "Tarray"
  /\ c.to.ty = "Tsarray"

\* C10: casting a slice of len elements of fs bytes to a static array of n
\* elements of ts bytes checks bounds before the pointer is read, and for
\* every n >= 0 the check passes if and only if n * ts <= len * fs.
C10_CastCheckPassesIffFits ==
  \A k \in 1..Len(calls) :
    (SliceToSArray(calls[k]) /\ Finished) =>
      LET c == calls[k] IN
      /\ c.checked
      /\ (phase = "done") <=> (c.to.dim * c.to.esz <= RtLen(c.u) * c.u.esz)

\* ------------------------------------------------------------ assignments
\* Everything emitted, block after block.
RECURSIVE Flatten(_, _)
Flatten(bs, k) ==
  IF k > Len(bs) THEN <<>> ELSE bs[k].instrs \o Flatten(bs, k + 1)
Emitted == Flatten(gIR.blocks, 1)
EmittedOps == {Emitted[i].op : i \in 1..Len(Emitted)}
EmittedCalls == SelectSeq(Emitted, LAMBDA ins : ins.op = "call")
CallsOf(fn) == SelectSeq(EmittedCalls, LAMBDA ins : ins.fn = fn)

DataCells == {a \in DOMAIN mem : a >= DataBase /\ a < ScratchBase}
ScratchCells == {a \in DOMAIN mem : a >= ScratchBase /\ a < MemTop}

\* Length and pointer an array value has when the emitted code starts.
Len0(v) == IF v.ty = "Tarray" /\ v.isLVal THEN AssignMem[v.addr] ELSE v.len
Ptr0(v) ==
  IF v.ty = "Tarray" /\ v.isLVal THEN AssignMem[v.addr + 1]
  ELSE IF v.ty = "Tsarray" THEN v.addr ELSE v.ptr

IsAssign(c) == c.fn = "DtoArrayAssign"
\* The destination is a dynamic-array reference that is rebound.
Rebinds(c) == c.lhs.ty = "Tarray" /\ ~c.lhs.isSlice
FromArray(c) == c.rhs.ty \in {"Tarray", "Tsarray"} /\ c.rhs.same
\* The element type has a postblit that the caller did not allow to skip.
PostblitRequired(c) ==
  c.et.ty = "Tstruct" /\ c.et.postblit /\ ~c.canSkipPostblit

\* An assign from an array of the same layout whose elements need
\* destruction or a postblit that cannot be skipped.
SlowArrayAssign(c) ==
  /\ IsAssign(c)
  /\ c.op = "TOKassign"
  /\ FromArray(c)
  /\ c.et.needsDestruction \/ PostblitRequired(c)

\* What C3 says of one call: one runtime call, to _d_arrayassign_l unless
\* canSkipPostblit (then _d_arrayassign_r), with a one-element stack buffer;
\* and after _d_arrayassign_l on equally long, possibly overlapping slices
\* every destination element is the source element as it was before.
AssignsThroughRuntime(c) ==
  /\ Len(EmittedCalls) = 1
  /\ EmittedCalls[1].fn =
       (IF c.canSkipPostblit THEN "_d_arrayassign_r" ELSE "_d_arrayassign_l")
  /\ gIR.nalloca = 1
  /\ EmittedCalls[1].tmp = Const(ScratchBase)
  /\ (Finished /\ ~c.canSkipPostblit /\ Len0(c.lhs) = Len0(c.rhs)) =>
       /\ phase = "done"
       /\ \A i \in 0..(Len0(c.lhs) - 1) :
            mem[Ptr0(c.lhs) + i] = AssignMem[Ptr0(c.rhs) + i]

\* C3 as stated: for an assign from an array source of the same element
\* layout whose elements need destruction or a non-skippable postblit,
\* DtoArrayAssign calls a runtime array-assign entry with a scratch
\* one-element buffer, the aliasing-safe one unless canSkipPostblit, and a
\* self-overlapping assign leaves each destination element equal to the
\* pre-assignment source element.
C3_AssignEntry_AsStated ==
  \A k \in 1..Len(calls) :
    SlowArrayAssign(calls[k]) => AssignsThroughRuntime(calls[k])

\* C3 as amended: the same, for destinations that are not a dynamic-array
\* reference being rebound (slice expressions and fixed-length arrays).
C3_AssignEntry ==
  \A k \in 1..Len(calls) :
    (SlowArrayAssign(calls[k]) /\ ~Rebinds(calls[k])) =>
      AssignsThroughRuntime(calls[k])

C3_Witness ==
  /\ phase = "done"
  /\ Len(calls) = 1
  /\ SlowArrayAssign(calls[1])
  /\ ~calls[1].canSkipPostblit
  /\ calls[1].lhs = DynSlice(2, DataBase + 1, 4)
  /\ calls[1].rhs = SameLayout(DynSlice(2, DataBase, 4))
  /\ rtcalls = <<[fn |-> "_d_arrayassign_l"]>>
  /\ mem[DataBase + 1] = AssignMem[DataBase]
  /\ mem[DataBase + 2] = AssignMem[DataBase + 1]

\* C4: whenever the destination is not a rebindable dynamic-array reference
\* and the operation is an assign on elements that need destruction, or a
\* construct or assign on elements whose postblit is required, no bulk copy,
\* no memory fill and no fill loop is emitted, but one runtime call to
\* _d_arrayctor, _d_arrayassign_l/_r, _d_arraysetctor or _d_arraysetassign.
C4_SlowPathNeverFast ==
  \A k \in 1..Len(calls) :
    LET c == calls[k] IN
    (/\ IsAssign(c)
     /\ ~Rebinds(c)
     /\ \/ c.op = "TOKassign" /\ c.et.needsDestruction
        \/ c.op \in {"TOKconstruct", "TOKassign"} /\ PostblitRequired(c)) =>
      /\ EmittedOps \cap {"memcpy", "memset", "memcpyglobal"} = {}
      /\ Len(gIR.blocks) = 1
      /\ Len(EmittedCalls) = 1
      /\ EmittedCalls[1].fn \in
           (IF FromArray(c)
            THEN {"_d_arrayctor", "_d_arrayassign_l", "_d_arrayassign_r"}
            ELSE {"_d_arraysetctor", "_d_arraysetassign"})
      /\ Finished => /\ Len(rtcalls) = 1
                     /\ rtcalls[1].fn = EmittedCalls[1].fn

C4_Witness ==
  /\ phase = "done"
  /\ Len(calls) = 1
  /\ IsAssign(calls[1])
  /\ calls[1].op = "TOKconstruct"
  /\ calls[1].lhs.ty = "Tsarray"
  /\ calls[1].rhs.ty = "scalar"
  /\ PostblitRequired(calls[1])
  /\ ~calls[1].et.needsDestruction
  /\ rtcalls = <<[fn |-> "_d_arraysetctor"]>>

\* The fast array-to-array path: the destination is not rebound, the source
\* is an array of the same layout, and neither destruction nor a postblit
\* is required.
FastArrayAssign(c) ==
  /\ IsAssign(c)
  /\ ~Rebinds(c)
  /\ FromArray(c)
  /\ ~(c.op = "TOKassign" /\ c.et.needsDestruction)
  /\ ~(/\ c.op # "TOKblit"
       /\ c.et.ty = "Tstruct" /\ c.et.postblit
       /\ (~c.canSkipPostblit \/ c.rhs.ty = "Tarray"))

CheckedCopies == CallsOf("_d_array_slice_copy")
PlainCopies == SelectSeq(Emitted, LAMBDA ins : ins.op = "memcpy")
ZeroFills == SelectSeq(Emitted, LAMBDA ins : ins.op = "memset")

\* A null source zero-fills all of the destination and copies nothing.
NullSourceZeroFills(c) ==
  /\ CheckedCopies = <<>> /\ PlainCopies = <<>>
  /\ Len(ZeroFills) = 1
  /\ ZeroFills[1].val = Const(0)
  /\ phase = "done" =>
       /\ \A i \in 0..(Len0(c.lhs) - 1) : mem[Ptr0(c.lhs) + i] = 0
       /\ writes \cap DataCells = Cells(Ptr0(c.lhs), Len0(c.lhs))

\* The copy is known to be in bounds: the operation constructs, or both
\* sides are fixed-length arrays.
CopyKnownInBounds(c) ==
  c.op \in {"TOKconstruct", "TOKblit"}
    \/ (c.lhs.ty = "Tsarray" /\ c.rhs.ty = "Tsarray")

\* C21 as stated: on the fast array-to-array path with a non-null source
\* the overlap-checked copy _d_array_slice_copy is emitted whenever the
\* runtime checks are enabled and the plain bulk copy only when they are
\* disabled; a null source zero-fills the destination's full byte length.
C21_CheckedCopyIffChecks_AsStated ==
  \A c \in Range(calls) :
    FastArrayAssign(c) =>
      IF c.rhs.isNull THEN NullSourceZeroFills(c)
      ELSE /\ ZeroFills = <<>>
           /\ c.checksEnabled =>
                Len(CheckedCopies) = 1 /\ PlainCopies = <<>>
           /\ ~c.checksEnabled =>
                Len(PlainCopies) = 1 /\ CheckedCopies = <<>>

\* C21 as amended: the overlap-checked copy is emitted when the runtime
\* checks are enabled and the copy is not known to be in bounds (the
\* operation is an assign and the two sides are not both fixed-length
\* arrays); the plain bulk copy is emitted when the checks are disabled and
\* also, with checks enabled, for construct, blit and fixed-to-fixed
\* assigns; a null source zero-fills the destination's full byte length.
C21_CheckedCopyUnlessKnownInBounds ==
  \A c \in Range(calls) :
    FastArrayAssign(c) =>
      IF c.rhs.isNull THEN NullSourceZeroFills(c)
      ELSE /\ ZeroFills = <<>>
           /\ (c.checksEnabled /\ ~CopyKnownInBounds(c)) =>
                /\ Len(CheckedCopies) = 1 /\ PlainCopies = <<>>
                /\ Finished => rtcalls = <<[fn |-> "_d_array_slice_copy"]>>
           /\ (~c.checksEnabled \/ CopyKnownInBounds(c)) =>
                /\ Len(PlainCopies) = 1 /\ CheckedCopies = <<>>
                /\ Finished => rtcalls = <<>>

\* A construction from a slice with the checks enabled: a plain copy ran
\* and no runtime entry was called.
C21_Witness ==
  /\ phase = "done"
  /\ Len(calls) = 1
  /\ FastArrayAssign(calls[1])
  /\ calls[1].op = "TOKconstruct"
  /\ calls[1].checksEnabled
  /\ calls[1].lhs = DynSlice(2, DataBase, 4)
  /\ calls[1].rhs = SameLayout(DynSlice(2, DataBase + 1, 4))
  /\ Len(PlainCopies) = 1
  /\ rtcalls = <<>>

\* A scalar is broadcast into a destination that is not rebound.
Broadcast(c) == IsAssign(c) /\ c.rhs.ty = "scalar" /\ ~Rebinds(c)

\* The destination's byte length divided by the scalar's byte size.
ScalarInstances(c) == (Len0(c.lhs) * c.lhs.esz) \div c.rhs.esz

\* C22: when a scalar is broadcast, the number of scalar instances written
\* is the destination's byte length divided by the scalar's byte size: the
\* fast path fills exactly that many slots, and the element count passed
\* to _d_arraysetctor / _d_arraysetassign on the slow path is that number,
\* for every destination length and nesting of fixed sub-arrays.
C22_BroadcastCount ==
  \A c \in Range(calls) :
    (Broadcast(c) /\ phase = "done") =>
      IF EmittedCalls = <<>>
      THEN writes \cap DataCells = Cells(Ptr0(c.lhs), ScalarInstances(c))
      ELSE /\ Len(EmittedCalls) = 1
           /\ Val(EmittedCalls[1].count) = ScalarInstances(c)

\* The emitted code is a memory fill, or the fill loop and nothing else
\* that writes.
FilledInline ==
  \/ Len(ZeroFills) = 1 /\ Len(gIR.blocks) = 1
  \/ /\ ZeroFills = <<>>
     /\ {gIR.blocks[b].label : b \in 2..Len(gIR.blocks)}
          = {"arrayinit.cond", "arrayinit.body", "arrayinit.end"}

\* The same element type with the opposite need for destruction.
OtherDestruction(et) == [et EXCEPT !.needsDestruction = ~@]

\* C28: a blit calls no runtime entry at all, so none of _d_arrayctor,
\* _d_arrayassign_l/_r, _d_arraysetctor and _d_arraysetassign, whatever the
\* element's postblit and need for destruction: an array source is
\* bulk-copied, or the destination zero-filled when the source is null, and
\* a scalar source is written by a memory fill or the fill loop; and a
\* construct lowers to the same code whether or not the element needs
\* destruction.
C28_BlitCallsNoEntry ==
  \A c \in Range(calls) :
    IsAssign(c) =>
      /\ c.op = "TOKblit" =>
           /\ EmittedCalls = <<>>
           /\ Finished => rtcalls = <<>>
           /\ ~Rebinds(c) =>
                IF FromArray(c)
                THEN /\ Len(gIR.blocks) = 1
                     /\ IF c.rhs.isNull
                        THEN Len(ZeroFills) = 1 /\ PlainCopies = <<>>
                        ELSE Len(PlainCopies) = 1 /\ ZeroFills = <<>>
                ELSE PlainCopies = <<>> /\ FilledInline
      /\ c.op = "TOKconstruct" =>
           gIR = DtoArrayAssign(EmptyFunction, c.lhs, c.rhs, c.op,
                                c.canSkipPostblit, OtherDestruction(c.et),
                                c.checksEnabled)

\* A blit of structs with a postblit and a destructor from another slice
\* has run: one bulk copy, no runtime call.
C28_Witness ==
  /\ phase = "done"
  /\ Len(calls) = 1
  /\ IsAssign(calls[1])
  /\ calls[1].op = "TOKblit"
  /\ calls[1].et = ElemType("Tstruct", TRUE, TRUE)
  /\ ~calls[1].canSkipPostblit
  /\ calls[1].lhs = DynSlice(2, DataBase + 1, 4)
  /\ calls[1].rhs = SameLayout(DynSlice(2, DataBase, 4))
  /\ Len(PlainCopies) = 1
  /\ rtcalls = <<>>
  /\ mem[DataBase + 1] = AssignMem[DataBase]

\* C8: when the destination has zero elements nothing is written to it: a
\* zero-element literal emits nothing, the fill loop's body block is never
\* entered, and the array and broadcast paths of construct, blit and assign
\* write no cell of element storage.
C8_ZeroLengthNoWrite ==
  \A k \in 1..Len(calls) :
    LET c == calls[k] IN
    /\ (c.fn = "initializeArrayLiteral" /\ Len(c.ale.elements) = 0) =>
         /\ Emitted = <<>>
         /\ gIR = EmptyFunction
         /\ writes = {}
    /\ (IsAssign(c) /\ Len0(c.lhs) = 0) =>
         /\ writes \cap DataCells = {}
         /\ \A i \in 1..Len(trace) :
              gIR.blocks[trace[i]].label # "arrayinit.body"
         /\ \A a \in DataCells : mem[a] = AssignMem[a]

C8_Witness ==
  /\ phase = "done"
  /\ Len(calls) = 1
  /\ IsAssign(calls[1])
  /\ calls[1].lhs = DynSlice(0, DataBase, 4)
  /\ calls[1].rhs = ScalarRVal(7, 4)
  /\ calls[1].op = "TOKconstruct"
  /\ Len(gIR.blocks) = 4
  /\ gIR.blocks[trace[Len(trace)]].label = "arrayinit.end"

\* C9: when the destination is a dynamic array that is not a slice
\* expression the operation only rebinds: it stores the source's length and
\* pointer (the null pair for a null source) into the destination reference
\* for every operation kind and element trait; no element is read or
\* written and no runtime entry is called.
C9_RebindOnly ==
  \A k \in 1..Len(calls) :
    LET c == calls[k] IN
    (IsAssign(c) /\ Rebinds(c)) =>
      /\ EmittedOps \subseteq {"load", "store", "storenull"}
      /\ Len(gIR.blocks) = 1
      /\ rtcalls = <<>>
      /\ reads \cap DataCells = {}
      /\ writes \subseteq {c.lhs.addr, c.lhs.addr + 1}
      /\ \A a \in DataCells : mem[a] = AssignMem[a]
      /\ Finished =>
           /\ phase = "done"
           /\ mem[c.lhs.addr] = (IF c.rhs.isNull THEN 0 ELSE Len0(c.rhs))
           /\ mem[c.lhs.addr + 1] = (IF c.rhs.isNull THEN 0 ELSE Ptr0(c.rhs))

C9_Witness ==
  /\ phase = "done"
  /\ Len(calls) = 1
  /\ IsAssign(calls[1])
  /\ calls[1].lhs = DynLVal(ARef, 4)
  /\ calls[1].rhs = SameLayout(DynSlice(3, DataBase + 1, 4))
  /\ calls[1].op = "TOKassign"
  /\ calls[1].et = ElemType("Tstruct", TRUE, TRUE)
  /\ mem[ARef] = 3
  /\ mem[ARef + 1] = DataBase + 1

\* --------------------------------------------------------------- appending
\* C2: starting from an empty array, after N append-one operations the array
\* has length N and element i holds the value of the i-th appended
\* expression, also when that expression reads an element of the array
\* being grown, whether or not the growth call moved the array.
C2_AppendNTimes ==
  (phase = "done" /\ calls # <<>> /\ calls[1].fn = "DtoCatAssignElement") =>
    /\ mem[ARef] = Len(calls)
    /\ \A i \in 1..Len(calls) :
         mem[mem[ARef + 1] + i - 1] = Appended(calls)[i]

\* Three appends, the last two reading the array, which moved each time.
C2_Witness ==
  /\ phase = "done"
  /\ Len(calls) = 3
  /\ calls[1].exp = IntegerExp(7, "T")
  /\ calls[2].exp = IndexExp(1, TRUE)
  /\ calls[3].exp = IndexExp(2, FALSE)
  /\ Len(rtcalls) = 3
  /\ mem[ARef] = 3
  /\ mem[ARef + 1] = DataBase + 3
  /\ \A i \in 0..2 : mem[DataBase + 3 + i] = 7

\* The code of the appends, and in it the positions of the growth calls and
\* of the stores into the last element.
AppendCode == gIR.blocks[1].instrs

PositionsOf(Test(_)) ==
  SelectSeq([i \in 1..Len(AppendCode) |-> i], LAMBDA i : Test(AppendCode[i]))

IsGrowthCall(ins) == ins.op = "call" /\ ins.fn = "_d_arrayappendcTX"
IsSlotStore(ins) == ins.op = "store" /\ ins.name = ".lastElem"
IsHook(ins) == ins.op = "postblit"

GrowthCalls == PositionsOf(IsGrowthCall)
SlotStores == PositionsOf(IsSlotStore)

\* The k-th append's code ends with its store, or with the hook after it.
AppendEnd(k) ==
  LET s == SlotStores[k]
  IN IF s < Len(AppendCode) /\ IsHook(AppendCode[s + 1]) THEN s + 1 ELSE s

AppendStart(k) == IF k = 1 THEN 1 ELSE AppendEnd(k - 1) + 1

\* The steps of the k-th append, in the order the claim gives them.
AppendInOrder(k) ==
  LET c == calls[k]
      E == AppendCode
      first == AppendStart(k)
      call == GrowthCalls[k]
      store == SlotStores[k]
      hooked == c.et.postblit /\ c.exp.op = "TOKindex" /\ c.exp.isLVal
  IN /\ first < call /\ call + 2 < store
     \* the old length is read first
     /\ E[first].op = "load" /\ E[first].addr = Const(ARef)
     \* the element expression is evaluated before the call
     /\ \A i \in (first + 1)..(call - 1) : E[i].op \in {"load", "sub", "add"}
     /\ c.exp.op = "TOKindex" =>
          \E i \in (first + 1)..(call - 1) :
            E[i].op = "sub" /\ E[i].b = Const(c.exp.back)
     /\ (c.exp.op = "TOKindex" /\ ~c.exp.isLVal) =>
          E[call - 1].op = "load" /\ E[call - 1].name = ".elem"
     /\ c.exp.op = "TOKint64" => call = first + 1
     \* the call asks for one more element of the reference itself
     /\ E[call].ref = Const(ARef) /\ E[call].extra = Const(1)
     \* the pointer is read from the reference after the call
     /\ E[call + 1].op = "load" /\ E[call + 1].addr = Const(ARef + 1)
     \* the slot is that pointer plus the old length
     /\ E[call + 2].op = "add"
     /\ E[call + 2].a = Reg(E[call + 1].dst)
     /\ E[call + 2].b = Reg(E[first].dst)
     \* the value is copied into the slot
     /\ \A i \in (call + 3)..(store - 1) :
          E[i].op = "load" /\ E[i].name = ".rval"
     /\ E[store].addr = Reg(E[call + 2].dst)
     \* the hook runs on the slot, after the copy and nowhere else
     /\ hooked <=> AppendEnd(k) = store + 1
     /\ hooked => E[store + 1].addr = E[store].addr
     /\ \A i \in first..store : ~IsHook(E[i])

\* C18: every append evaluates the element expression before the growth
\* call; the call asks for exactly 1 more element and changes the array
\* reference in place; the pointer is read from the reference after the
\* call; the slot is that pointer plus the old length; the value is copied
\* into the slot; and the postblit runs on the slot after the copy.
C18_AppendStepOrder ==
  (calls # <<>> /\ calls[1].fn = "DtoCatAssignElement") =>
    /\ Len(GrowthCalls) = Len(calls)
    /\ Len(SlotStores) = Len(calls)
    /\ AppendEnd(Len(calls)) = Len(AppendCode)
    /\ \A k \in 1..Len(calls) : AppendInOrder(k)
    /\ phase = "done" =>
         /\ mem[ARef] = Len(calls)
         /\ mem[mem[ARef + 1] + Len(calls) - 1]
              = Appended(calls)[Len(calls)]

\* A struct with a postblit appended twice, the second time a copy of the
\* first element read in place; the array moved at the second growth and
\* the postblit ran once, last.
C18_Witness ==
  /\ phase = "done"
  /\ Len(calls) = 2
  /\ calls[1].fn = "DtoCatAssignElement"
  /\ calls[1].et.postblit
  /\ calls[2].exp = IndexExp(1, TRUE)
  /\ mem[ARef + 1] = DataBase + 1
  /\ mem[DataBase + 2] = 7
  /\ Len(rtcalls) = 3
  /\ rtcalls[3].fn = "postblit"

\* The address the appended element was stored to.
SlotWritten(k) == Val(AppendCode[SlotStores[k]].addr)

\* C19: the appended element is written to the last slot of the grown
\* array, index = length after growth - 1, for every element expression,
\* also one whose evaluation changes the length of the array; and the
\* length used for the slot index is read before the element expression
\* is evaluated.
C19_WrittenToLastSlot ==
  (phase = "done" /\ calls # <<>> /\ calls[1].fn = "DtoCatAssignElement") =>
    /\ SlotWritten(Len(calls)) = mem[ARef + 1] + mem[ARef] - 1
    /\ LET first == AppendStart(Len(calls))
       IN /\ AppendCode[first].op = "load"
          /\ AppendCode[first].addr = Const(ARef)
          /\ AppendCode[GrowthCalls[Len(calls)] + 2].b
               = Reg(AppendCode[first].dst)

\* ----------------------------------------------------------- concatenation
\* The record the runtime is to see for operand v: an array's length and
\* pointer; for a single element, length 1 and a pointer to its value.
IsRecordOf(rec, v) ==
  IF v.ty = "Tarray"
  THEN /\ rec.len = (IF v.isLVal THEN CatMem[v.addr] ELSE v.len)
       /\ rec.ptr = (IF v.isLVal THEN CatMem[v.addr + 1] ELSE v.ptr)
  ELSE IF v.ty = "Tsarray"
  THEN rec.len = v.len /\ rec.ptr = v.addr
  ELSE /\ rec.len = 1
       /\ mem[rec.ptr] = (IF v.isLVal THEN CatMem[v.addr] ELSE v.val)


\* C6: a left-nested chain of k >= 2 concatenations (k + 1 operands) lowers
\* to exactly one call of _d_arraycatnTX and none of _d_arraycatT, and the
\* call carries exactly k + 1 (length, pointer) records in left-to-right
\* source order, a non-array operand as a record of length 1; a
\* concatenation whose left operand is not a concatenation lowers to
\* exactly one call of _d_arraycatT.
C6_CatSingleCall ==
  \A c \in Range(calls) :
    c.fn = "DtoCatArrays" =>
      LET n == Len(c.operands) IN
      /\ Len(EmittedCalls) = 1
      /\ Len(CallsOf("_d_arraycatnTX")) = (IF n >= 3 THEN 1 ELSE 0)
      /\ Len(CallsOf("_d_arraycatT")) = (IF n >= 3 THEN 0 ELSE 1)
      /\ Finished =>
           /\ phase = "done"
           /\ Len(rtcalls) = 1
           /\ rtcalls[1].fn = EmittedCalls[1].fn
           /\ Len(rtcalls[1].arrs) = n
           /\ \A i \in 1..n : IsRecordOf(rtcalls[1].arrs[i], c.operands[i])

\* a ~ 7 ~ s: three operands, one n-ary call, the element as the middle
\* record.
C6_Witness ==
  /\ phase = "done"
  /\ Len(calls) = 1
  /\ calls[1].fn = "DtoCatArrays"
  /\ calls[1].operands =
       <<DynLVal(ARef, 4), ScalarRVal(7, 4), SArray(3, DataBase, 4)>>
  /\ Len(rtcalls) = 1
  /\ rtcalls[1].fn = "_d_arraycatnTX"
  /\ Len(rtcalls[1].arrs) = 3
  /\ rtcalls[1].arrs[1] = [len |-> 1, ptr |-> DataBase]
  /\ rtcalls[1].arrs[2].len = 1
  /\ mem[rtcalls[1].arrs[2].ptr] = 7
  /\ rtcalls[1].arrs[3] = [len |-> 3, ptr |-> DataBase]

\* The instructions of the concatenation that have run so far.
CatExecuted ==
  IF phase = "emit" THEN <<>>
  ELSE SubSeq(gIR.blocks[1].instrs, 1, xip - 1)

\* The source positions of the operands evaluated so far, in the order of
\* their evaluation.
EvaluatedOperands ==
  LET ev == SelectSeq(CatExecuted, LAMBDA ins : ins.op = "toElem")
  IN [i \in 1..Len(ev) |-> ev[i].pos]

\* C27: in a concatenation of three or more operands the operands are
\* evaluated in left-to-right source order, the order of their records in
\* the array passed to _d_arraycatnTX: at every moment the operands
\* evaluated so far are the first ones of the source, in order.
C27_OperandsEvaluatedLeftToRight ==
  \A c \in Range(calls) :
    (c.fn = "DtoCatArrays" /\ Len(c.operands) >= 3) =>
      /\ EvaluatedOperands = [i \in 1..Len(EvaluatedOperands) |-> i]
      /\ Finished => Len(EvaluatedOperands) = Len(c.operands)

\* ---------------------------------------------------- constant initializers
\* The slot entry i of an initializer targets: its explicit index, else the
\* slot after the previous entry's, else slot 0.
RECURSIVE SlotOf(_, _)
SlotOf(index, i) ==
  IF index[i].present THEN index[i].val
  ELSE IF i = 1 THEN 0 ELSE SlotOf(index, i - 1) + 1

Accepted(c) ==
  c.fn = "DtoConstArrayInitializer" /\ ~c.st.fatal /\ ~c.st.asserted

\* C7: for every accepted initializer list the slot table has exactly N
\* slots (N the declared length of a fixed array, else the initializer's
\* own dimension), every slot is filled, an entry fills the slot its index
\* names or else the slot after the previous entry's (slot 0 for the
\* first), and every slot no entry targets holds the element's default.
C7_SlotTable ==
  \A c \in Range(calls) :
    Accepted(c) =>
      LET index == c.arrinit.index
          N == IF c.target.ty = "Tsarray" THEN c.target.dim
               ELSE c.arrinit.dim
          targeted == {SlotOf(index, i) : i \in 1..Len(index)}
      IN /\ Len(c.st.initvals) = N
         /\ \A k \in 1..N : c.st.initvals[k] # NullConst
         /\ \A i \in 1..Len(index) :
              c.st.initvals[SlotOf(index, i) + 1] = c.arrinit.value[i]
         /\ \A k \in 0..(N - 1) :
              k \notin targeted => c.st.initvals[k + 1] = c.target.defaultInit

\* {0:a, 2:c} for a fixed array of length 3: slot 1 is the default.
C7_Witness ==
  /\ phase = "compiled"
  /\ Len(calls) = 1
  /\ calls[1].fn = "DtoConstArrayInitializer"
  /\ calls[1].arrinit.index = <<Index(0), Index(2)>>
  /\ calls[1].target.ty = "Tsarray"
  /\ calls[1].target.dim = 3
  /\ calls[1].st.initvals =
       <<calls[1].arrinit.value[1], calls[1].target.defaultInit,
         calls[1].arrinit.value[2]>>

\* The number of slots of the table: a fixed array's declared length, else
\* the initializer's dimension.
\* The calls that were accepted for a dynamic-array or a pointer target.
GlobalMakers ==
  {k \in 1..Len(calls) :
     Accepted(calls[k]) /\ calls[k].target.ty \in {"Tarray", "Tpointer"}}

\* The module's globals are those of the accepted calls, and no others.
NoOtherGlobal == Len(gIR.globals) = Cardinality(GlobalMakers)

SlotCount(c) ==
  IF c.target.ty = "Tsarray" THEN c.target.dim ELSE c.arrinit.dim

IsInit(c) == c.fn = "DtoConstArrayInitializer"

\* The entries that name a slot an earlier entry named, in list order.
DuplicateEntries(index) ==
  SelectSeq([i \in 1..Len(index) |-> i],
            LAMBDA i : \E h \in 1..(i - 1) : SlotOf(index, h) = SlotOf(index, i))

\* The last entry that names the slot entry i names.
LastAt(index, i) ==
  CHOOSE h \in i..Len(index) :
    /\ SlotOf(index, h) = SlotOf(index, i)
    /\ \A g \in (h + 1)..Len(index) : SlotOf(index, g) # SlotOf(index, i)

\* The list is rejected for its size before it is scanned.
TooMany(c) ==
  Len(c.arrinit.index) > SlotCount(c) \/ c.arrinit.dim > SlotCount(c)

\* What C11 says of a call whose list has a duplicate index: one error per
\* duplicate, in list order; every entry was processed (each slot holds its
\* last entry's value); and the compilation stopped with no default
\* computed, no constant built and no global created.
ScannedThenAborted(c) ==
  LET index == c.arrinit.index
      dups == DuplicateEntries(index)
  IN /\ c.st.diags = [d \in 1..Len(dups) |->
                        [msg |-> "duplicate initialization",
                         index |-> SlotOf(index, dups[d])]]
     /\ \A i \in 1..Len(index) :
          c.st.initvals[SlotOf(index, i) + 1]
            = c.arrinit.value[LastAt(index, i)]
     /\ c.st.fatal
     /\ c.st.ndefault = 0
     /\ c.st.elemDefaultInit = NullConst
     /\ c.st.constarr = "none"
     /\ c.st.gvar = 0
     /\ NoOtherGlobal
     /\ phase \in {"emit", "fatal"}

\* C11 as stated: a duplicate initializer index records an error without
\* stopping the scan, every remaining entry is still processed and each
\* later duplicate recorded, and the compilation is aborted only after the
\* whole list was scanned, before any default is computed and before any
\* constant or global is created.
C11_DuplicateCollected_AsStated ==
  \A c \in Range(calls) :
    (IsInit(c) /\ DuplicateEntries(c.arrinit.index) # <<>>) =>
      ScannedThenAborted(c)

\* C11 as amended: the same, for a list that the size check before the scan
\* does not reject as having too many initializers.
C11_DuplicateCollected ==
  \A c \in Range(calls) :
    (/\ IsInit(c)
     /\ DuplicateEntries(c.arrinit.index) # <<>>
     /\ ~TooMany(c)) =>
      ScannedThenAborted(c)

\* {1:a, 1:b, 1:c} for a fixed array of length 3: two errors, then abort.
C11_Witness ==
  /\ phase = "fatal"
  /\ Len(calls) = 1
  /\ IsInit(calls[1])
  /\ calls[1].arrinit.index = <<Index(1), Index(1), Index(1)>>
  /\ calls[1].target.ty = "Tsarray"
  /\ calls[1].target.dim = 3
  /\ Len(calls[1].st.diags) = 2
  /\ calls[1].st.initvals[2] = calls[1].arrinit.value[3]
  /\ calls[1].st.fatal

\* Some entry of the list names, by its index or its position, a slot that
\* is not below the slot count.
OutOfRange(c) ==
  \E i \in 1..Len(c.arrinit.index) :
    SlotOf(c.arrinit.index, i) >= SlotCount(c)

\* C12: a list with more entries than the array length, and a list with an
\* entry whose index (explicit or positional) is not below the array
\* length, each end in a diagnostic and the abort of the compilation, and
\* the slot table, of exactly N slots, has had no slot written.
C12_RejectedWithDiagnostic ==
  \A c \in Range(calls) :
    (IsInit(c) /\ (Len(c.arrinit.index) > SlotCount(c) \/ OutOfRange(c))) =>
      /\ c.st.diags # <<>>
      /\ c.st.diags[1].msg = "too many initializers"
      /\ c.st.fatal
      /\ ~c.st.asserted
      /\ DOMAIN c.st.initvals = 1..SlotCount(c)
      /\ \A k \in 1..SlotCount(c) : c.st.initvals[k] = NullConst
      /\ c.st.gvar = 0
      /\ NoOtherGlobal
      /\ phase \in {"emit", "fatal"}

\* {2:a} for a fixed array of length 1.
C12_Witness ==
  /\ phase = "fatal"
  /\ Len(calls) = 1
  /\ IsInit(calls[1])
  /\ calls[1].arrinit.index = <<Index(2)>>
  /\ calls[1].target.ty = "Tsarray"
  /\ calls[1].target.dim = 1
  /\ Len(calls[1].st.diags) = 1
  /\ calls[1].st.diags[1].msg = "too many initializers"
  /\ calls[1].st.initvals = <<NullConst>>

\* ------------------------------------------------------------------ equality
\* The length of an operand in memory m.
LenIn(m, v) ==
  IF v.ty = "Tarray" /\ v.isLVal THEN m[v.addr] ELSE v.len

\* The truth value the comparison c yields.
Yields(c) == regs[c.res.v] = 1

\* No runtime call: the result is length(other) == 0, or != 0 for '!='.
ComparesLength(c, other) ==
  /\ EmittedCalls = <<>>
  /\ Finished =>
       /\ phase = "done"
       /\ rtcalls = <<>>
       /\ Yields(c) <=> ((c.op = "TOKequal") <=> (LenIn(EqMem, other) = 0))

\* Exactly one call, of deep-equal with the type descriptor; '==' is true
\* iff it returned non-zero, '!=' iff it returned zero.
ComparesDeep(c) ==
  /\ Len(EmittedCalls) = 1
  /\ EmittedCalls[1].fn = "_adEq2"
  /\ EmittedCalls[1].useti
  /\ Finished =>
       /\ phase = "done"
       /\ Len(rtcalls) = 1
       /\ rtcalls[1].fn = "_adEq2"
       /\ rtcalls[1].l.len = LenIn(EqMem, c.l)
       /\ rtcalls[1].r.len = LenIn(EqMem, c.r)
       /\ Yields(c) <=> ((c.op = "TOKequal") <=> (rtcalls[1].ret # 0))

IsEquals(c) == c.fn = "DtoArrayEquals"

\* C13 as stated: equality against a literal null operand is lowered with
\* no runtime call to length(other operand) == 0 (!= 0 for '!='); every
\* other operand pair makes exactly one call of deep-equal with the type
\* descriptor, and '==' is true iff the result is non-zero, '!=' iff zero.
C13_EqualsNullFastPath_AsStated ==
  \A c \in Range(calls) :
    IsEquals(c) =>
      IF c.r.isNull THEN ComparesLength(c, c.l)
      ELSE IF c.l.isNull THEN ComparesLength(c, c.r)
      ELSE ComparesDeep(c)

\* C13 as amended: the fast path is taken against a literal null right
\* operand, and compares the left operand's length; every other pair, a
\* null literal on the left included, makes the one deep-equal call.
C13_EqualsNullFastPath ==
  \A c \in Range(calls) :
    IsEquals(c) =>
      IF c.r.isNull THEN ComparesLength(c, c.l) ELSE ComparesDeep(c)

\* s != t for equal slices at different addresses: one call, result false.
C13_WitnessDeep ==
  /\ phase = "done"
  /\ Len(calls) = 1
  /\ IsEquals(calls[1])
  /\ calls[1].op = "TOKnotequal"
  /\ calls[1].l = DynSlice(2, DataBase, 4)
  /\ calls[1].r = DynSlice(2, DataBase + 2, 4)
  /\ Len(rtcalls) = 1
  /\ rtcalls[1].ret = 1
  /\ ~Yields(calls[1])

\* a == null for the non-empty a: no call, result false.
C13_Witness ==
  /\ phase = "done"
  /\ Len(calls) = 1
  /\ IsEquals(calls[1])
  /\ calls[1].op = "TOKequal"
  /\ calls[1].l = DynLVal(ARef, 4)
  /\ calls[1].r = DynNull(4)
  /\ rtcalls = <<>>
  /\ ~Yields(calls[1])

\* ------------------------------------------------------------ array literals
IsLiteral(c) == c.fn = "initializeArrayLiteral"

\* Element i (from 1) of the literal, the basis standing in for a null.
ElementOf(ale, i) ==
  IF ale.elements[i] = NullExp THEN ale.basis ELSE ale.elements[i]

AllConstant(ale) ==
  \A i \in 1..Len(ale.elements) : ElementOf(ale, i).isConst = 1

\* The instructions that write one element of the destination.
ElementWrites ==
  SelectSeq(Emitted, LAMBDA ins : ins.op \in {"construct", "store"})

\* C14: a literal of constant elements is stored by exactly one store of
\* the whole constant and no global when it has 1 to 4 elements, and by
\* exactly one new read-only global and exactly one bulk copy of the whole
\* constant when it has 5 or more; a literal with an element that is not
\* constant is constructed element by element in index order 0..n-1, by a
\* blit only where in-place construction was not possible.
C14_LiteralPlacement ==
  \A c \in Range(calls) :
    (IsLiteral(c) /\ Len(c.ale.elements) >= 1) =>
      LET n == Len(c.ale.elements)
          vals == [i \in 1..n |-> ElementOf(c.ale, i).val]
      IN IF AllConstant(c.ale)
         THEN /\ Len(Emitted) = 1
              /\ IF n <= 4
                 THEN /\ Emitted[1].op = "storeconst"
                      /\ Emitted[1].addr = Const(c.dstMem)
                      /\ Emitted[1].vals = vals
                      /\ gIR.globals = <<>>
                 ELSE /\ Len(gIR.globals) = 1
                      /\ gIR.globals[1].isConstant
                      /\ gIR.globals[1].init.vals = vals
                      /\ Emitted[1].op = "memcpyglobal"
                      /\ Emitted[1].src = 1
                      /\ Emitted[1].dst = Const(c.dstMem)
                      /\ Emitted[1].size = Const(n)
              /\ phase = "done" =>
                   \A i \in 1..n : mem[c.dstMem + i - 1] = vals[i]
         ELSE /\ gIR.globals = <<>>
              /\ EmittedOps \subseteq {"construct", "store", "load"}
              /\ Len(ElementWrites) = n
              /\ \A i \in 1..n :
                   /\ ElementWrites[i].index = i - 1
                   /\ ElementWrites[i].addr = Const(c.dstMem + i - 1)
                   /\ (ElementWrites[i].op = "store")
                        <=> ~ElementOf(c.ale, i).inPlace

\* Five constant elements: one read-only global, one bulk copy.
C14_Witness ==
  /\ phase = "done"
  /\ Len(calls) = 1
  /\ IsLiteral(calls[1])
  /\ Len(calls[1].ale.elements) = 5
  /\ AllConstant(calls[1].ale)
  /\ calls[1].ale.elements[5] = NullExp
  /\ Len(gIR.globals) = 1
  /\ Emitted[1].op = "memcpyglobal"
  /\ mem[DataBase + 4] = calls[1].ale.basis.val

\* The slots of call c that no entry of the list names.
Unfilled(c) ==
  {k \in 0..(SlotCount(c) - 1) :
     \A i \in 1..Len(c.arrinit.index) : SlotOf(c.arrinit.index, i) # k}

\* C25: the element's default value is computed at most once per literal
\* however many slots are unfilled, not at all when every slot has an
\* explicit initializer, and all unfilled slots hold that one value.
C25_DefaultComputedOnce ==
  \A c \in Range(calls) :
    Accepted(c) =>
      /\ c.st.ndefault <= 1
      /\ c.st.ndefault = 0 <=> Unfilled(c) = {}
      /\ Unfilled(c) = {} => c.st.elemDefaultInit = NullConst
      /\ Unfilled(c) # {} => c.st.elemDefaultInit = c.target.defaultInit
      /\ \A k \in Unfilled(c) : c.st.initvals[k + 1] = c.st.elemDefaultInit

\* {2:a} for a dynamic array: slots 0 and 1 share one default, computed
\* once.
C25_Witness ==
  /\ phase = "compiled"
  /\ Len(calls) = 1
  /\ calls[1].target.ty = "Tarray"
  /\ calls[1].arrinit.index = <<Index(2)>>
  /\ Unfilled(calls[1]) = {0, 1}
  /\ calls[1].st.ndefault = 1
  /\ calls[1].st.initvals[1] = calls[1].st.initvals[2]

\* The constant an accepted call built: returned, or put in its global.
ConstantOf(c) ==
  IF c.st.gvar = 0 THEN c.st.value ELSE gIR.globals[c.st.gvar].init

\* The literal of a call of initializeArrayLiteral is a constant too long
\* to be stored inline, so that it is emitted as a global.
LiteralGlobal(c) ==
  /\ c.fn = "initializeArrayLiteral"
  /\ \A i \in 1..Len(c.ale.elements) : ElementOf(c.ale, i).isConst = 1
  /\ Len(c.ale.elements) > InlineLimit

\* C26: when the layout of any slot (an explicit entry or the shared
\* default) differs from the nominal element layout the literal is emitted
\* as a packed record with one field per slot in slot order, by
\* DtoConstArrayInitializer and by arrayLiteralToConst alike; when all
\* slots have the nominal layout it is a homogeneous array (or vector) of
\* N elements.
C26_PackedRecordOnMismatch ==
  \A c \in Range(calls) :
    /\ Accepted(c) =>
         LET k == ConstantOf(c)
             differs == \E i \in 1..SlotCount(c) :
                          c.st.initvals[i].lltype # c.target.llelemty
         IN /\ Len(k.vals) = SlotCount(c)
            /\ k.vals = c.st.initvals
            /\ IF differs THEN k.kind = "struct" /\ k.packed
               ELSE k.kind = (IF c.target.ty = "Tvector" THEN "vector"
                              ELSE "array")
    /\ LiteralGlobal(c) =>
         LET k == gIR.globals[1].init
             differs == \E i \in 1..Len(c.ale.elements) :
                          ElementOf(c.ale, i).lltype # "T"
         IN /\ Len(k.vals) = Len(c.ale.elements)
            /\ IF differs THEN k.kind = "struct" /\ k.packed
               ELSE k.kind = "array"

\* C15: the global made for a dynamic-array or pointer target is not marked
\* constant and holds the slot table; for a dynamic-array target the value
\* returned is the pair (N, address of that global), N the slot count; for
\* a fixed-length or vector target no global is made and the constant
\* itself is returned; and every such call makes a global of its own, also
\* when the same initializer was lowered before.
C15_FreshMutableGlobal ==
  /\ NoOtherGlobal
  /\ \A k \in 1..Len(calls) :
       LET c == calls[k]
       IN Accepted(c) =>
            IF c.target.ty \in {"Tarray", "Tpointer"}
            THEN /\ c.st.gvar \in 1..Len(gIR.globals)
                 /\ ~gIR.globals[c.st.gvar].isConstant
                 /\ gIR.globals[c.st.gvar].init.vals = c.st.initvals
                 /\ \A h \in GlobalMakers :
                      h # k => calls[h].st.gvar # c.st.gvar
                 /\ c.target.ty = "Tarray" =>
                      /\ c.st.value.kind = "slice"
                      /\ c.st.value.fields
                           = <<Const(SlotCount(c)), GlobalRef(c.st.gvar)>>
                 /\ c.target.ty = "Tpointer" =>
                      c.st.value = GlobalRef(c.st.gvar)
            ELSE /\ c.st.gvar = 0
                 /\ c.st.value.kind = c.st.constarr
                 /\ c.st.value.vals = c.st.initvals
                 /\ c.st.value.dim = SlotCount(c)

\* {a, b} lowered twice for dynamic arrays: two globals with the same
\* contents, and each call returns the address of its own.
C15_Witness ==
  /\ phase = "compiled"
  /\ Len(calls) = 2
  /\ calls[1].target.ty = "Tarray"
  /\ calls[2].target = calls[1].target
  /\ calls[1].arrinit.dim = 2
  /\ Len(gIR.globals) = 2
  /\ gIR.globals[1] = gIR.globals[2]
  /\ calls[1].st.value.fields = <<Const(2), GlobalRef(1)>>
  /\ calls[2].st.value.fields = <<Const(2), GlobalRef(2)>>

\* C17: the dynamic-array struct has the length as field 0 and the pointer
\* as field 1; what DtoSetArray, DtoSlicePtr and DtoConstSlice write as
\* length and pointer is in field 0 and field 1 of the record, and is what
\* DtoArrayLen, DtoArrayPtr and getSlice read back as length and pointer;
\* the length of a null slice is 0 and of a fixed array its dimension.
C17_LengthThenPointer ==
  /\ DtoArrayType = <<"size_t", "ptr">>
  /\ \A n \in 0..MaxLen, p \in DataBase..(DataBase + MaxLen) :
       /\ DtoConstSlice(Const(n), Const(p)).fields = <<Const(n), Const(p)>>
       /\ getSlice([fields |-> <<Const(n), Const(p)>>], 4)
            = DynSlice(n, p, 4)
  /\ \A c \in Range(calls) :
       c.fn = "layout" =>
         /\ (c.src.how = "given" /\ c.v.isNull) => c.len = Const(0)
         /\ (c.src.how = "given" /\ c.v.ty = "Tsarray") =>
              c.len = Const(c.v.len)
         /\ phase = "done" =>
              /\ Val(c.len) = c.src.n
              /\ Val(c.ptr) = c.src.p
              /\ (c.v.ty = "Tarray" /\ c.v.isLVal) =>
                   /\ mem[c.v.addr] = c.src.n
                   /\ mem[c.v.addr + 1] = c.src.p

\* A static array of 3 elements made a slice record by DtoSlicePtr and read
\* back: length 3 from field 0, its address from field 1.
C17_Witness ==
  /\ phase = "done"
  /\ Len(calls) = 1
  /\ calls[1].fn = "layout"
  /\ calls[1].src.how = "DtoSlicePtr"
  /\ calls[1].src.v = SArray(3, DataBase + 1, 4)
  /\ mem[calls[1].v.addr] = 3
  /\ mem[calls[1].v.addr + 1] = DataBase + 1
  /\ Val(calls[1].len) = 3
  /\ Val(calls[1].ptr) = DataBase + 1

\* The casts of a slice to a slice.
SliceToSlice(c) ==
  /\ c.fn = "DtoCastArray"
  /\ c.u.ty = "Tarray"
  /\ c.to.ty = "Tarray"

\* One element size is a multiple of the other.
OneDivides(s1, s2) == s1 % s2 = 0 \/ s2 % s1 = 0

CastLenCalls == CallsOf("_d_array_cast_len")

\* C20 as stated: for a slice-to-slice cast between different element
\* sizes, the length is scaled in line (a multiplication or a division by
\* the ratio, no runtime call) whenever one size divides the other, and
\* _d_array_cast_len is called only when neither divides the other.
C20_ScaledInLineWhenDivisible_AsStated ==
  \A c \in Range(calls) :
    (SliceToSlice(c) /\ c.u.esz # c.to.esz) =>
      IF OneDivides(c.u.esz, c.to.esz)
      THEN /\ CastLenCalls = <<>>
           /\ EmittedOps \cap {"mul", "udiv"} # {}
      ELSE Len(CastLenCalls) = 1

\* C20 as amended: for a slice-to-slice cast between different element
\* sizes the length is always the result of one call of
\* _d_array_cast_len(length, old size, new size), whether or not one size
\* divides the other, and no multiplication or division is emitted; for
\* equal sizes there is no call.
C20_AlwaysThroughRuntime ==
  \A c \in Range(calls) :
    SliceToSlice(c) =>
      IF c.u.esz # c.to.esz
      THEN /\ Len(CastLenCalls) = 1
           /\ CastLenCalls[1].args[2] = Const(c.u.esz)
           /\ CastLenCalls[1].args[3] = Const(c.to.esz)
           /\ c.len = Reg(CastLenCalls[1].dst)
           /\ EmittedOps \cap {"mul", "udiv"} = {}
           /\ phase = "done" =>
                /\ Len(rtcalls) = 1
                /\ Val(CastLenCalls[1].args[1]) = RtLen(c.u)
      ELSE /\ CastLenCalls = <<>>
           /\ Finished => rtcalls = <<>>

\* Three bytes cast to one element of three bytes: 1 divides 3, and the
\* length 1 came from the runtime call.
C20_Witness ==
  /\ phase = "done"
  /\ Len(calls) = 1
  /\ SliceToSlice(calls[1])
  /\ calls[1].u = DynSlice(3, DataBase, 1)
  /\ calls[1].to.esz = 3
  /\ Len(CastLenCalls) = 1
  /\ Len(rtcalls) = 1
  /\ rtcalls[1].fn = "_d_array_cast_len"
  /\ Val(calls[1].len) = 1

\* C5: casting a slice of length L and element size s1 to element size s2
\* yields length L' with L' * s2 = L * s1 when s2 divides L * s1 and traps at
\* run time otherwise; when s1 = s2 the length is unchanged and no runtime
\* entry is called.
C5_CastLengthRescaled ==
  \A k \in 1..Len(calls) :
    (SliceToSlice(calls[k]) /\ Finished) =>
      LET c == calls[k]
          L == RtLen(c.u)
          s1 == c.u.esz
          s2 == c.to.esz
      IN /\ ~c.fatal
         /\ s1 = s2 => /\ phase = "done"
                       /\ Val(c.len) = L
                       /\ rtcalls = <<>>
         /\ (s1 # s2 /\ (L * s1) % s2 = 0) =>
              /\ phase = "done"
              /\ Val(c.len) * s2 = L * s1
         /\ (s1 # s2 /\ (L * s1) % s2 # 0) =>
              /\ phase = "trap"
              /\ rtcalls[Len(rtcalls)].fn = "_d_array_cast_len"

C5_Witness ==
  /\ phase = "done"
  /\ Len(calls) = 1
  /\ SliceToSlice(calls[1])
  /\ calls[1].u = DynSlice(2, DataBase, 4)
  /\ calls[1].to.esz = 2
  /\ Val(calls[1].len) = 4
  /\ Len(rtcalls) = 1

====
